---- MODULE Spec2Model ----
(***************************************************************************)
(* Model of the pipeline run store (package pipeline, orm.go) and of the   *)
(* log broadcast tracker (package log, orm.go).                            *)
(*                                                                         *)
(* The storage backend is PostgreSQL.  A transaction's writes become       *)
(* visible to other transactions when it commits; a row lock taken by      *)
(* SELECT ... FOR UPDATE or by UPDATE is held until the transaction ends.   *)
(* Every transaction of the run store touches the pipeline_runs row of its *)
(* run before anything else, so a transaction is modelled by the step that *)
(* opens it, the step that takes the row lock and the step that does the   *)
(* rest of its body and commits.                                           *)
(***************************************************************************)
EXTENDS Integers, Sequences, FiniteSets, TLC

\* ------------------------------------------------------------------ bounds
\* number of task run uuids the callers generate
MaxTaskIDs == 2
\* number of calls of the store the callers make
MaxCalls == 3
\* the reading of the clock (time.Now(), NOW()) while the calls are made;
\* 0 is the zero time / SQL NULL
Now == 1

\* number of blocks with logs
MaxBlock == 2
\* number of persisted runs the maintenance operations are run against
MaxRuns == 3
\* the times of the clock the persisted runs were created and finished at
MaxTime == 3
\* the page size of the paged scan (postgres.BatchSize)
BatchSize == 2

NULL == "NULL"
Times == 1..MaxTime
TaskIDs == 1..MaxTaskIDs
DotIDs == {"ds1", "ds2"}
\* e1 starts the run; e2 is a second executor instance, which gets the run
\* when it is resumed.
Executors == {"e1", "e2"}
Starters == {"e1"}
Resumers == {"e2"}
Callbacks == {"c1"}
\* c2 is a second result-posting path, which posts when c1 does
Posters == {"c1", "c2"}
Procs == Executors \cup Posters

RunStatusRunning == "running"
RunStatusSuspended == "suspended"
RunStatusCompleted == "completed"

sqlErrNoRows == "sql: no rows in result set"
ErrCreatedAt == "run.CreatedAt must be set"
ErrFinishedAt == "run.FinishedAt must be set"
ErrOutputsErrors == "run must have both Outputs and Errors"
ErrNoTaskRuns == "must provide task run results"
ErrStorage == "storage error"
ErrFn == "fn failed"
ErrUniqueViolation == "failed to create log broadcast"

VARIABLES
    pipeline_runs,      \* table pipeline_runs: a set of rows
    pipeline_task_runs, \* table pipeline_task_runs: a set of rows
    nextRunID,          \* the id sequence of pipeline_runs
    nextTaskID,         \* the next uuid a caller generates
    lock,               \* the row locks held on pipeline_runs: pairs <<id, process>>
    run,                \* run[e]: the Run an executor holds in memory
    req,                \* req[c]: the arguments of a callback's call
    pc,                 \* pc[p]: where process p is in its call
    ret,                \* ret[p]: p's last call: its name, flag argument and results
    calls,              \* the number of calls of the store made so far
    created,            \* history: the task rows the successful CreateRun calls inserted
    maint,              \* the arguments and locals of the maintenance call in progress
    log_broadcasts,         \* table log_broadcasts: a set of rows
    log_broadcasts_pending, \* table log_broadcasts_pending: a set of rows
    tracker             \* tracker[p]: the call a caller of the log ORM is in, its locals

vars == <<pipeline_runs, pipeline_task_runs, nextRunID, nextTaskID, lock,
          run, req, pc, ret, calls, created, maint,
          log_broadcasts, log_broadcasts_pending, tracker>>

\* The variables of the pipeline ORM, which no operation of the log ORM
\* touches.
storeVars == <<pipeline_runs, pipeline_task_runs, nextRunID, nextTaskID, lock,
               run, req, pc, ret, calls, created, maint>>

\* The variables of the log ORM, which no operation of the pipeline ORM
\* touches.
trackerVars == <<log_broadcasts, log_broadcasts_pending, tracker>>

\* ------------------------------------------------------------ values
\* The zero value of the Go struct Run.
ZeroRun ==
    [ID |-> 0, State |-> "", CreatedAt |-> 0, FinishedAt |-> 0,
     Outputs |-> NULL, FatalErrors |-> <<>>, PipelineTaskRuns |-> {}]

NoRet == [op |-> "", arg |-> FALSE, signal |-> FALSE, err |-> NULL, run |-> ZeroRun]
\* No maintenance call (DeleteRun, DeleteRunsOlderThan, GetUnfinishedRuns) is
\* in progress: id, now and age are its arguments; offset, limit, count, page
\* and seen are the locals of the paged scan (seen: the runs passed to fn).
NoMaint ==
    [id |-> 0, now |-> 0, age |-> 0, offset |-> 0, count |-> 0, page |-> <<>>,
     seen |-> <<>>]

\* The callers of the log ORM: subscribers and the broadcaster.
Trackers == {"t1", "t2"}

\* the chains the node listens to: one ORM per chain
ChainIDs == {1, 2}
\* orm.evmChainID: the chain of the ORM whose callers are modelled; the rows
\* of the other chain are another ORM's
evmChainID == 1
JobIDs == {1}
LogIndexes == {0}
\* The blocks the logs are in: a block is given by its hash and its number.
BlockNumbers == 1..MaxBlock
\* a block number that is nil (*int64) or NULL (the column)
Nil == 0
BlockHash(n) == <<"hash", n>>

\* A caller of the log ORM that is in no call: op is the operation, chain,
\* block and value are its arguments, minUnconsumed and minPending are the
\* locals of Reinitialize, result and err are what the call returns.
\* unconsumed and pending are history: the unconsumed rows and the pending
\* minimum block of the chain when Reinitialize began.
NoCall ==
    [pc |-> "idle", op |-> "", chain |-> 0, block |-> 0, value |-> Nil,
     minUnconsumed |-> Nil, minPending |-> Nil, result |-> NULL, err |-> NULL,
     unconsumed |-> {}, pending |-> Nil]

NoReq == [taskID |-> 0, output |-> NULL, error |-> NULL, runID |-> 0, state |-> ""]

\* What a caller can post as a task's result: a value or an error.
Results == {[output |-> "out", error |-> NULL], [output |-> NULL, error |-> "err"]}

\* The type, index and creation time an executor gives a task run it builds:
\* the two executors differ in them, so that two task runs built for the same
\* node of the graph differ in every column.
TaskProto(e) ==
    IF e = "e1" THEN [type |-> "bridge", index |-> 0, created_at |-> 1]
    ELSE [type |-> "http", index |-> 1, created_at |-> Now + 1]

\* What an executor sets on a run it finishes: outputs and fatal errors
\* (well-formed or not: the store validates them).
FinishInputs ==
    {[Outputs |-> "out", FatalErrors |-> <<NULL>>],
     [Outputs |-> "out", FatalErrors |-> <<"err">>],
     [Outputs |-> NULL, FatalErrors |-> <<NULL>>],
     [Outputs |-> "out", FatalErrors |-> <<>>]}

\* ------------------------------------------------------------ helpers
\* TaskRun.IsPending: no finish time, no output, no error.
IsPending(tr) == tr.finished_at = 0 /\ tr.output = NULL /\ tr.error = NULL

\* Run.HasErrors: some error slot of the run is not empty.
HasErrors(r) == \E i \in 1..Len(r.FatalErrors) : r.FatalErrors[i] # NULL

\* Run.ByDotID over a slice of task runs (empty when there is none).
ByDotID(taskRuns, dot) == {tr \in taskRuns : tr.dot_id = dot}

RunRows(id) == {r \in pipeline_runs : r.id = id}
TaskRows(id) == {tr \in pipeline_task_runs : tr.pipeline_run_id = id}

\* The Run struct scanned from a pipeline_runs row (SELECT pipeline_runs.*).
ScanRun(row, taskRuns) ==
    [ID |-> row.id, State |-> row.state, CreatedAt |-> row.created_at,
     FinishedAt |-> row.finished_at, Outputs |-> row.outputs,
     FatalErrors |-> row.fatal_errors, PipelineTaskRuns |-> taskRuns]

\* Rows of `batch` that break the primary key (id) or the unique index
\* (pipeline_run_id, dot_id) against `rows` or against each other.
Collides(rows, batch) ==
    \/ \E a \in batch, b \in rows :
          a.id = b.id \/ (a.pipeline_run_id = b.pipeline_run_id /\ a.dot_id = b.dot_id)
    \/ \E a \in batch, b \in batch :
          a # b /\ (a.id = b.id \/ (a.pipeline_run_id = b.pipeline_run_id /\ a.dot_id = b.dot_id))

\* ------------------------------------------------------ table operations
\* A pipeline_runs row as CreateRun inserts it: the statement names
\* pipeline_spec_id, meta, inputs, created_at and state only.
NewRunRow(id, r) ==
    [id |-> id, state |-> r.State, created_at |-> r.CreatedAt, finished_at |-> 0,
     outputs |-> NULL, fatal_errors |-> <<>>]

\* A pipeline_runs row as InsertFinishedRun inserts it.
FinishedRunRow(id, r) ==
    [id |-> id, state |-> r.State, created_at |-> r.CreatedAt,
     finished_at |-> r.FinishedAt, outputs |-> r.Outputs,
     fatal_errors |-> r.FatalErrors]

\* "update the ID key everywhere"
WithRunID(taskRuns, id) == {[tr EXCEPT !.pipeline_run_id = id] : tr \in taskRuns}

\* The task rows CreateRun inserts: its column list has no finished_at.
CreateRunTaskRows(taskRuns, id) ==
    {[tr EXCEPT !.finished_at = 0] : tr \in WithRunID(taskRuns, id)}

SameKey(a, b) == a.pipeline_run_id = b.pipeline_run_id /\ a.dot_id = b.dot_id

\* Mutant: the conflicting row is replaced by the row of the batch.
OnConflictReplace(row, tr) == tr

\* ON CONFLICT (pipeline_run_id, dot_id) DO UPDATE SET output, error, finished_at
OnConflictUpdate(row, tr) ==
    [row EXCEPT !.output = tr.output, !.error = tr.error, !.finished_at = tr.finished_at]

\* The rows the upsert of StoreRun returns (RETURNING *): the rows it
\* updated and the rows it inserted.
UpsertReturning(rows, batch) ==
    {OnConflictUpdate(p[1], p[2]) : p \in {q \in rows \X batch : SameKey(q[1], q[2])}}
      \cup {tr \in batch : \A x \in rows : ~SameKey(x, tr)}

\* Mutant: ON CONFLICT DO NOTHING.
UpsertSkipsConflicts(rows, batch) ==
    rows \cup {tr \in batch : \A x \in rows : ~SameKey(x, tr)}

\* The table after the upsert of StoreRun.
UpsertTaskRuns(rows, batch) ==
    {x \in rows : \A tr \in batch : ~SameKey(x, tr)} \cup UpsertReturning(rows, batch)

\* The upsert fails when the run row is gone (foreign key), when two rows of
\* the batch hit the same key, or when an inserted row's id is taken.
UpsertFails(rows, batch, runExists) ==
    \/ ~runExists
    \/ \E a \in batch, b \in batch : a # b /\ SameKey(a, b)
    \/ Collides(rows, {tr \in batch : \A x \in rows : ~SameKey(x, tr)})

\* StoreRun's diff with the reloaded task runs: a task that is pending in
\* memory and no longer pending in the table is replaced by the table's copy.
NewData(reloaded, tr) == {x \in ByDotID(reloaded, tr.dot_id) : ~IsPending(x)}

\* Mutant: StoreRun never finds new data.
NeedsRestartNever(taskRuns, reloaded) == FALSE

NeedsRestart(taskRuns, reloaded) ==
    \E tr \in taskRuns : IsPending(tr) /\ NewData(reloaded, tr) # {}

\* Mutant: nothing is swapped in.
SwapNothing(taskRuns, reloaded) == taskRuns

SwapTaskRuns(taskRuns, reloaded) ==
    {IF IsPending(tr) /\ NewData(reloaded, tr) # {}
        THEN CHOOSE x \in NewData(reloaded, tr) : TRUE
        ELSE tr : tr \in taskRuns}

\* Mutant: the SELECT does not look at the run's state.
RunsOfTaskAnyState(taskID) ==
    {r \in pipeline_runs :
        \E tr \in pipeline_task_runs : tr.id = taskID /\ tr.pipeline_run_id = r.id}

\* The run UpdateTaskRunResult's SELECT ... FOR UPDATE finds for a task id.
RunsOfTask(taskID) ==
    {r \in pipeline_runs :
        /\ r.state \in {RunStatusRunning, RunStatusSuspended}
        /\ \E tr \in pipeline_task_runs : tr.id = taskID /\ tr.pipeline_run_id = r.id}

\* Mutant: the UPDATE has no WHERE clause.
UpdateEveryTaskRow(rows, taskID, output, error, now) ==
    {[tr EXCEPT !.output = output, !.error = error, !.finished_at = now] : tr \in rows}

\* Mutant: the UPDATE does not set finished_at.
UpdateTaskRowNoFinishTime(rows, taskID, output, error, now) ==
    {IF tr.id = taskID THEN [tr EXCEPT !.output = output, !.error = error] ELSE tr :
        tr \in rows}

\* UPDATE pipeline_task_runs SET output, error, finished_at WHERE id = taskID
UpdateTaskRow(rows, taskID, output, error, now) ==
    {IF tr.id = taskID
        THEN [tr EXCEPT !.output = output, !.error = error, !.finished_at = now]
        ELSE tr : tr \in rows}

\* UPDATE pipeline_runs SET state = ... WHERE id = ...
UpdateRunState(rows, id, state) ==
    {IF r.id = id THEN [r EXCEPT !.state = state] ELSE r : r \in rows}

\* Mutant: the UPDATE sets the state only.
UpdateRunFinishedStateOnly(rows, r) ==
    {IF x.id = r.ID THEN [x EXCEPT !.state = r.State] ELSE x : x \in rows}

\* UPDATE pipeline_runs SET state, finished_at, fatal_errors, outputs WHERE id
UpdateRunFinished(rows, r) ==
    {IF x.id = r.ID
        THEN [x EXCEPT !.state = r.State, !.finished_at = r.FinishedAt,
                       !.fatal_errors = r.FatalErrors, !.outputs = r.Outputs]
        ELSE x : x \in rows}

\* Mutant: nobody waits for a row lock.
LockedNever(id) == FALSE

Locked(id) == \E l \in lock : l[1] = id
Unlock(p) == {l \in lock : l[2] # p}

\* ------------------------------------------------------------ initial state
Init ==
    /\ pipeline_runs = {}
    /\ pipeline_task_runs = {}
    /\ nextRunID = 1
    /\ nextTaskID = 1
    /\ lock = {}
    /\ run = [e \in Executors |-> ZeroRun]
    /\ req = [c \in Posters |-> NoReq]
    /\ pc = [p \in Procs |-> "idle"]
    /\ ret = [p \in Procs |-> NoRet]
    /\ calls = 0
    /\ created = {}
    /\ maint = NoMaint
    /\ log_broadcasts = {}
    /\ log_broadcasts_pending = {}
    /\ tracker = [p \in Trackers |-> NoCall]

\* --------------------------------------------- the executor (the caller)
\* The executor builds a new run: Running, with or without a creation time.
NewRun(e) ==
    /\ pc[e] = "idle"
    /\ run[e] = ZeroRun
    /\ \E t \in {0, Now} :
          run' = [run EXCEPT ![e] = [ZeroRun EXCEPT !.State = RunStatusRunning,
                                                   !.CreatedAt = t]]
    /\ UNCHANGED <<trackerVars, maint, created, calls, pipeline_runs, pipeline_task_runs, nextRunID, nextTaskID, lock,
                   req, pc, ret>>

\* The executor runs a task of the graph: the task run is pending (an
\* asynchronous task) or carries an output or an error.
AddTaskRun(e) ==
    /\ pc[e] = "idle"
    /\ run[e].State = RunStatusRunning
    /\ nextTaskID <= MaxTaskIDs
    /\ \E dot \in DotIDs, outcome \in {"pending", "output"} :
          LET proto == TaskProto(e) IN
          /\ ByDotID(run[e].PipelineTaskRuns, dot) = {}
          /\ run' = [run EXCEPT ![e].PipelineTaskRuns = @ \cup
                {[id |-> nextTaskID, pipeline_run_id |-> run[e].ID, dot_id |-> dot,
                  type |-> proto.type, index |-> proto.index,
                  output |-> IF outcome = "output" THEN "out" ELSE NULL,
                  error |-> IF outcome = "error" THEN "err" ELSE NULL,
                  created_at |-> proto.created_at,
                  finished_at |-> IF outcome = "pending" THEN 0 ELSE proto.created_at]}]
    /\ nextTaskID' = nextTaskID + 1
    /\ UNCHANGED <<trackerVars, maint, created, calls, pipeline_runs, pipeline_task_runs, nextRunID, lock, req, pc, ret>>

\* The executor ends the run: finish time, state, outputs and fatal errors.
Finish(e) ==
    /\ pc[e] = "idle"
    /\ run[e].State = RunStatusRunning
    /\ \E f \in FinishInputs :
          run' = [run EXCEPT ![e].State = RunStatusCompleted, ![e].FinishedAt = Now,
                             ![e].Outputs = f.Outputs, ![e].FatalErrors = f.FatalErrors]
    /\ UNCHANGED <<trackerVars, maint, created, calls, pipeline_runs, pipeline_task_runs, nextRunID, nextTaskID, lock,
                   req, pc, ret>>

\* The run UpdateTaskRunResult returned with start = true is handed to an
\* executor, which resumes it.
ResumeRun(e, c) ==
    /\ pc[e] = "idle"
    /\ pc[c] = "ret"
    /\ ret[c].signal
    /\ run[e] # ret[c].run
    /\ run' = [run EXCEPT ![e] = ret[c].run]
    /\ UNCHANGED <<trackerVars, maint, created, calls, pipeline_runs, pipeline_task_runs, nextRunID, nextTaskID, lock,
                   req, pc, ret>>

\* FindRun: a second executor instance loads a persisted run with its task
\* runs (loadAssociations), to drive it.
FindRun(e) ==
    /\ pc[e] = "idle"
    /\ run[e] = ZeroRun
    /\ \E row \in pipeline_runs :
          /\ run' = [run EXCEPT ![e] = ScanRun(row, TaskRows(row.id))]
    /\ UNCHANGED <<trackerVars, maint, created, calls, pipeline_runs, pipeline_task_runs, nextRunID, nextTaskID, lock,
                   req, pc, ret>>

\* A call has returned; the caller goes on.
Return(p) ==
    /\ pc[p] = "ret"
    /\ pc' = [pc EXCEPT ![p] = "idle"]
    /\ ret' = [ret EXCEPT ![p] = NoRet]
    /\ req' = [c \in Posters |-> IF c = p THEN NoReq ELSE req[c]]
    /\ UNCHANGED <<trackerVars, maint, created, calls, pipeline_runs, pipeline_task_runs, nextRunID, nextTaskID, lock, run>>

\* Mutant: the inserts are not in one transaction; a failure at the insert of
\* the tasks leaves the run row behind.
CreateRunTxNoRollback(e, fail) ==
    LET r == run[e]
        id == nextRunID
        taskRows == CreateRunTaskRows(r.PipelineTaskRuns, id)
        failed == \/ fail = "run"
                  \/ fail = "tasks" /\ r.PipelineTaskRuns # {}
                  \/ Collides(pipeline_task_runs, taskRows)
    IN  /\ nextRunID' = IF fail = "run" THEN nextRunID ELSE nextRunID + 1
        /\ run' = [run EXCEPT ![e] =
               IF fail = "run" THEN r
               ELSE [r EXCEPT !.ID = id,
                              !.PipelineTaskRuns = WithRunID(r.PipelineTaskRuns, id)]]
        /\ pipeline_runs' =
               IF fail = "run" THEN pipeline_runs ELSE pipeline_runs \cup {NewRunRow(id, r)}
        /\ pipeline_task_runs' =
               IF failed THEN pipeline_task_runs ELSE pipeline_task_runs \cup taskRows
        /\ created' = IF failed THEN created ELSE created \cup taskRows
        /\ ret' = [ret EXCEPT ![e] =
               [NoRet EXCEPT !.op = "CreateRun",
                             !.err = IF failed THEN ErrStorage ELSE NULL]]

\* ------------------------------------------------------------ CreateRun
\* One transaction: insert the run row, then the task rows the run carries.
\* `fail` is where the storage backend fails the transaction, if it does:
\* at the insert of the run ("run"), at the insert of the tasks ("tasks").
\* A failed transaction is rolled back; the id sequence is not.
CreateRunTx(e, fail) ==
    LET r == run[e]
        id == nextRunID
        taskRows == CreateRunTaskRows(r.PipelineTaskRuns, id)
        failed == \/ fail = "run"
                  \/ fail = "tasks" /\ r.PipelineTaskRuns # {}
                  \/ Collides(pipeline_task_runs, taskRows)
    IN  /\ nextRunID' = IF fail = "run" THEN nextRunID ELSE nextRunID + 1
        /\ run' = [run EXCEPT ![e] =
               IF fail = "run" THEN r
               ELSE [r EXCEPT !.ID = id,
                              !.PipelineTaskRuns = WithRunID(r.PipelineTaskRuns, id)]]
        /\ pipeline_runs' =
               IF failed THEN pipeline_runs ELSE pipeline_runs \cup {NewRunRow(id, r)}
        /\ pipeline_task_runs' =
               IF failed THEN pipeline_task_runs ELSE pipeline_task_runs \cup taskRows
        /\ created' = IF failed THEN created ELSE created \cup taskRows
        /\ ret' = [ret EXCEPT ![e] =
               [NoRet EXCEPT !.op = "CreateRun",
                             !.err = IF failed THEN ErrStorage ELSE NULL]]

CreateRun(e) ==
    /\ pc[e] = "idle"
    /\ calls' = calls + 1
    /\ run[e].State = RunStatusRunning
    /\ run[e].ID = 0
    /\ IF run[e].CreatedAt = 0
          THEN /\ ret' = [ret EXCEPT ![e] =
                      [NoRet EXCEPT !.op = "CreateRun", !.err = ErrCreatedAt]]
               /\ UNCHANGED <<created, pipeline_runs, pipeline_task_runs, nextRunID, run>>
          ELSE \E fail \in {"no", "run", "tasks"} : CreateRunTx(e, fail)
    /\ pc' = [pc EXCEPT ![e] = "ret"]
    /\ UNCHANGED <<trackerVars, maint, nextTaskID, lock, req>>

\* -------------------------------------------------------------- StoreRun
\* The caller stores a run it created, with the task runs it has so far.
StoreRunBegin(e) ==
    /\ pc[e] = "idle"
    /\ calls' = calls + 1
    /\ run[e].ID # 0
    /\ run[e].PipelineTaskRuns # {}
    /\ pc' = [pc EXCEPT ![e] = "StoreRun_tx"]
    /\ UNCHANGED <<trackerVars, maint, created, pipeline_runs, pipeline_task_runs, nextRunID, nextTaskID, lock,
                   run, req, ret>>

\* Unfinished run: SELECT id FROM pipeline_runs WHERE id = $1 FOR UPDATE.
\* It waits while another transaction holds the row's lock; it locks nothing
\* when there is no such row.
StoreRunLock(e) ==
    /\ pc[e] = "StoreRun_tx"
    /\ run[e].FinishedAt = 0
    /\ IF RunRows(run[e].ID) # {}
          THEN /\ ~Locked(run[e].ID)
               /\ lock' = lock \cup {<<run[e].ID, e>>}
          ELSE UNCHANGED lock
    /\ pc' = [pc EXCEPT ![e] = "StoreRun_locked"]
    /\ UNCHANGED <<trackerVars, maint, created, calls, pipeline_runs, pipeline_task_runs, nextRunID, nextTaskID,
                   run, req, ret>>

\* Unfinished run, under the lock: reload the task runs, diff, and either
\* return restart = true or suspend the run and upsert its task runs.
StoreRunSuspend(e) ==
    LET r == run[e]
        reloaded == TaskRows(r.ID)
        restart == NeedsRestart(r.PipelineTaskRuns, reloaded)
        failed == UpsertFails(pipeline_task_runs, r.PipelineTaskRuns, RunRows(r.ID) # {})
    IN  /\ pc[e] = "StoreRun_locked"
        /\ IF restart
              THEN /\ run' = [run EXCEPT ![e].PipelineTaskRuns =
                                  SwapTaskRuns(r.PipelineTaskRuns, reloaded)]
                   /\ UNCHANGED <<pipeline_runs, pipeline_task_runs>>
              ELSE /\ run' = [run EXCEPT
                          ![e].State = RunStatusSuspended,
                          ![e].PipelineTaskRuns =
                              IF failed THEN @
                              ELSE UpsertReturning(pipeline_task_runs, r.PipelineTaskRuns)]
                   /\ pipeline_runs' =
                          IF failed THEN pipeline_runs
                          ELSE UpdateRunState(pipeline_runs, r.ID, RunStatusSuspended)
                   /\ pipeline_task_runs' =
                          IF failed THEN pipeline_task_runs
                          ELSE UpsertTaskRuns(pipeline_task_runs, r.PipelineTaskRuns)
        /\ ret' = [ret EXCEPT ![e] =
               [NoRet EXCEPT !.op = "StoreRun", !.signal = restart,
                             !.err = IF ~restart /\ failed THEN ErrStorage ELSE NULL]]
        /\ lock' = Unlock(e)
        /\ pc' = [pc EXCEPT ![e] = "ret"]
        /\ UNCHANGED <<trackerVars, maint, created, calls, nextRunID, nextTaskID, req>>

\* Mutant: the UPDATE of the run row waits for nobody and locks nothing.
StoreRunFinishUpdateNoLock(e) ==
    LET r == run[e]
        invalid == r.Outputs = NULL \/ Len(r.FatalErrors) = 0
    IN  /\ pc[e] = "StoreRun_tx"
        /\ r.FinishedAt # 0
        /\ IF invalid
              THEN /\ ret' = [ret EXCEPT ![e] =
                          [NoRet EXCEPT !.op = "StoreRun", !.err = ErrOutputsErrors]]
                   /\ pc' = [pc EXCEPT ![e] = "ret"]
              ELSE /\ pc' = [pc EXCEPT ![e] = "StoreRun_finishing"]
                   /\ UNCHANGED ret
        /\ UNCHANGED <<trackerVars, maint, created, calls, lock, pipeline_runs, pipeline_task_runs, nextRunID,
                       nextTaskID, run, req>>

\* Finished run: no SELECT ... FOR UPDATE.  The run must have outputs and
\* errors.  The UPDATE of the run row is the transaction's first statement:
\* like any write it waits while another transaction holds the row's lock,
\* and it holds that lock until the transaction ends; it locks nothing when
\* there is no such row.
StoreRunFinishUpdate(e) ==
    LET r == run[e]
        invalid == r.Outputs = NULL \/ Len(r.FatalErrors) = 0
    IN  /\ pc[e] = "StoreRun_tx"
        /\ r.FinishedAt # 0
        /\ IF invalid
              THEN /\ ret' = [ret EXCEPT ![e] =
                          [NoRet EXCEPT !.op = "StoreRun", !.err = ErrOutputsErrors]]
                   /\ pc' = [pc EXCEPT ![e] = "ret"]
                   /\ UNCHANGED lock
              ELSE /\ IF RunRows(r.ID) # {}
                         THEN /\ ~Locked(r.ID)
                              /\ lock' = lock \cup {<<r.ID, e>>}
                         ELSE UNCHANGED lock
                   /\ pc' = [pc EXCEPT ![e] = "StoreRun_finishing"]
                   /\ UNCHANGED ret
        /\ UNCHANGED <<trackerVars, maint, created, calls, pipeline_runs, pipeline_task_runs, nextRunID,
                       nextTaskID, run, req>>

\* Finished run, after the UPDATE of the run row: upsert the task runs and
\* commit.
StoreRunFinish(e) ==
    LET r == run[e]
        failed == UpsertFails(pipeline_task_runs, r.PipelineTaskRuns, RunRows(r.ID) # {})
    IN  /\ pc[e] = "StoreRun_finishing"
        /\ pipeline_runs' =
               IF failed THEN pipeline_runs ELSE UpdateRunFinished(pipeline_runs, r)
        /\ pipeline_task_runs' =
               IF failed THEN pipeline_task_runs
               ELSE UpsertTaskRuns(pipeline_task_runs, r.PipelineTaskRuns)
        /\ run' = [run EXCEPT ![e].PipelineTaskRuns =
               IF failed THEN @
               ELSE UpsertReturning(pipeline_task_runs, r.PipelineTaskRuns)]
        /\ ret' = [ret EXCEPT ![e] =
               [NoRet EXCEPT !.op = "StoreRun",
                             !.err = IF failed THEN ErrStorage ELSE NULL]]
        /\ lock' = Unlock(e)
        /\ pc' = [pc EXCEPT ![e] = "ret"]
        /\ UNCHANGED <<trackerVars, maint, created, calls, nextRunID, nextTaskID, req>>

\* --------------------------------------------------- UpdateTaskRunResult
\* SELECT pipeline_runs.* ... WHERE pipeline_task_runs.id = $1 AND state in
\* ('running', 'suspended') FOR UPDATE: no row is sql.ErrNoRows; a row is
\* locked, after waiting for whoever holds its lock.
UpdateTaskRunResultLock(c) ==
    /\ pc[c] = "idle"
    /\ calls' = calls + 1
    /\ \E taskID \in TaskIDs, result \in Results :
          LET found == RunsOfTask(taskID) IN
          IF found = {}
             THEN /\ req' = [req EXCEPT ![c] =
                         [NoReq EXCEPT !.taskID = taskID, !.output = result.output,
                                       !.error = result.error]]
                  /\ ret' = [ret EXCEPT ![c] =
                         [NoRet EXCEPT !.op = "UpdateTaskRunResult", !.err = sqlErrNoRows]]
                  /\ pc' = [pc EXCEPT ![c] = "ret"]
                  /\ UNCHANGED lock
             ELSE LET row == CHOOSE r \in found : TRUE IN
                  /\ ~Locked(row.id)
                  /\ lock' = lock \cup {<<row.id, c>>}
                  /\ req' = [req EXCEPT ![c] =
                         [taskID |-> taskID, output |-> result.output,
                          error |-> result.error, runID |-> row.id, state |-> row.state]]
                  /\ pc' = [pc EXCEPT ![c] = "UpdateTaskRunResult_locked"]
                  /\ UNCHANGED ret
    /\ UNCHANGED <<trackerVars, maint, created, pipeline_runs, pipeline_task_runs, nextRunID, nextTaskID, run>>

\* Mutant: a suspended run is not started again.
ShouldStartNever(state) == FALSE

\* if run.State == RunStatusSuspended { start = true ... }
ShouldStart(state) == state = RunStatusSuspended

\* Under the lock: write the result on the task row; a suspended run is set
\* back to running and returned with its reloaded task runs, start = true.
UpdateTaskRunResultCommit(c) ==
    LET q == req[c]
        start == ShouldStart(q.state)
    IN  /\ pc[c] = "UpdateTaskRunResult_locked"
        /\ pipeline_task_runs' =
              UpdateTaskRow(pipeline_task_runs, q.taskID, q.output, q.error, Now)
        /\ pipeline_runs' =
              IF start THEN UpdateRunState(pipeline_runs, q.runID, RunStatusRunning)
              ELSE pipeline_runs
        /\ ret' = [ret EXCEPT ![c] =
              [op |-> "UpdateTaskRunResult", arg |-> FALSE, signal |-> start, err |-> NULL,
               run |-> LET row == CHOOSE r \in pipeline_runs' : r.id = q.runID IN
                       ScanRun(row, IF start
                                       THEN {tr \in pipeline_task_runs' :
                                                tr.pipeline_run_id = q.runID}
                                       ELSE {})]]
        /\ lock' = Unlock(c)
        /\ pc' = [pc EXCEPT ![c] = "ret"]
        /\ UNCHANGED <<trackerVars, maint, created, calls, nextRunID, nextTaskID, run, req>>

\* ----------------------------------------------------- InsertFinishedRun
\* Mutant: outputs and fatal errors are not checked.
InsertFinishedRunErrorNoOutputs(r, saveSuccessfulTaskRuns) ==
    IF r.CreatedAt = 0 THEN ErrCreatedAt
    ELSE IF r.FinishedAt = 0 THEN ErrFinishedAt
    ELSE IF r.PipelineTaskRuns = {} /\ (saveSuccessfulTaskRuns \/ HasErrors(r))
         THEN ErrNoTaskRuns
    ELSE NULL

InsertFinishedRunError(r, saveSuccessfulTaskRuns) ==
    IF r.CreatedAt = 0 THEN ErrCreatedAt
    ELSE IF r.FinishedAt = 0 THEN ErrFinishedAt
    ELSE IF r.Outputs = NULL \/ Len(r.FatalErrors) = 0 THEN ErrOutputsErrors
    ELSE IF r.PipelineTaskRuns = {} /\ (saveSuccessfulTaskRuns \/ HasErrors(r))
         THEN ErrNoTaskRuns
    ELSE NULL

\* Mutant: the task rows are saved only when the flag is set.
SavesTaskRunsFlagOnly(r, saveSuccessfulTaskRuns) == saveSuccessfulTaskRuns

\* Whether InsertFinishedRun inserts the task rows after the run row.
SavesTaskRuns(r, saveSuccessfulTaskRuns) == saveSuccessfulTaskRuns \/ HasErrors(r)

InsertFinishedRun(e) ==
    /\ pc[e] = "idle"
    /\ calls' = calls + 1
    /\ run[e].State # ""
    /\ run[e].ID = 0
    /\ \E saveSuccessfulTaskRuns \in BOOLEAN :
          LET r == run[e]
              id == nextRunID
              err == InsertFinishedRunError(r, saveSuccessfulTaskRuns)
              taskRows == IF SavesTaskRuns(r, saveSuccessfulTaskRuns)
                             THEN WithRunID(r.PipelineTaskRuns, id) ELSE {}
              failed == Collides(pipeline_task_runs, taskRows)
          IN  IF err # NULL
                 THEN /\ ret' = [ret EXCEPT ![e] =
                             [NoRet EXCEPT !.op = "InsertFinishedRun",
                                           !.arg = saveSuccessfulTaskRuns, !.err = err]]
                      /\ UNCHANGED <<pipeline_runs, pipeline_task_runs, nextRunID, run>>
                 ELSE /\ nextRunID' = nextRunID + 1
                      /\ run' = [run EXCEPT ![e] =
                             [r EXCEPT !.ID = id,
                                       !.PipelineTaskRuns = WithRunID(r.PipelineTaskRuns, id)]]
                      /\ pipeline_runs' =
                             IF failed THEN pipeline_runs
                             ELSE pipeline_runs \cup {FinishedRunRow(id, r)}
                      /\ pipeline_task_runs' =
                             IF failed THEN pipeline_task_runs
                             ELSE pipeline_task_runs \cup taskRows
                      /\ ret' = [ret EXCEPT ![e] =
                             [NoRet EXCEPT !.op = "InsertFinishedRun",
                                           !.arg = saveSuccessfulTaskRuns,
                                           !.err = IF failed THEN ErrStorage ELSE NULL]]
    /\ pc' = [pc EXCEPT ![e] = "ret"]
    /\ UNCHANGED <<trackerVars, maint, created, nextTaskID, lock, req>>

\* ---------------------------------------------------------------- DeleteRun
\* Mutant: the task rows are left behind.
KeepTaskRuns(taskRows, runRows) == taskRows

\* ON DELETE CASCADE: the task rows whose run row is gone are gone.
CascadeTaskRuns(taskRows, runRows) ==
    {tr \in taskRows : \E r \in runRows : r.id = tr.pipeline_run_id}

\* DELETE FROM pipeline_runs WHERE id = $1
DeleteRun(e) ==
    /\ pc[e] = "idle"
    /\ \E id \in 1..MaxRuns :
          LET kept == {r \in pipeline_runs : r.id # id} IN
          /\ ~Locked(id)
          /\ maint' = [NoMaint EXCEPT !.id = id]
          /\ pipeline_runs' = kept
          /\ pipeline_task_runs' = CascadeTaskRuns(pipeline_task_runs, kept)
    /\ ret' = [ret EXCEPT ![e] = [NoRet EXCEPT !.op = "DeleteRun"]]
    /\ pc' = [pc EXCEPT ![e] = "ret"]
    /\ UNCHANGED <<trackerVars, created, calls, nextRunID, nextTaskID, lock, run, req>>

\* ------------------------------------------------------ DeleteRunsOlderThan
\* Mutant: a NULL finished_at compares like the zero time.
FinishedBeforeNullAsZero(r, cutoff) == r.finished_at < cutoff

\* finished_at < $1: never true of a NULL finished_at.
FinishedBefore(r, cutoff) == r.finished_at # 0 /\ r.finished_at < cutoff

\* DELETE FROM pipeline_runs WHERE finished_at < time.Now().Add(-threshold)
DeleteRunsOlderThan(e) ==
    /\ pc[e] = "idle"
    /\ \E now \in Times, age \in 0..MaxTime :
          LET kept == {r \in pipeline_runs : ~FinishedBefore(r, now - age)} IN
          /\ \A r \in pipeline_runs \ kept : ~Locked(r.id)
          /\ maint' = [NoMaint EXCEPT !.now = now, !.age = age]
          /\ pipeline_runs' = kept
          /\ pipeline_task_runs' = CascadeTaskRuns(pipeline_task_runs, kept)
    /\ ret' = [ret EXCEPT ![e] = [NoRet EXCEPT !.op = "DeleteRunsOlderThan"]]
    /\ pc' = [pc EXCEPT ![e] = "ret"]
    /\ UNCHANGED <<trackerVars, created, calls, nextRunID, nextTaskID, lock, run, req>>

\* -------------------------------------------------------- GetUnfinishedRuns
\* ORDER BY created_at ASC, id ASC
RunBefore(a, b) ==
    a.created_at < b.created_at \/ (a.created_at = b.created_at /\ a.id < b.id)

RECURSIVE SortRuns(_)
SortRuns(rows) ==
    IF rows = {} THEN <<>>
    ELSE LET first == CHOOSE x \in rows : \A y \in rows \ {x} : RunBefore(x, y)
         IN  <<first>> \o SortRuns(rows \ {first})

\* SELECT * from pipeline_runs WHERE state = 'running' AND created_at < now
\* ORDER BY created_at ASC, id ASC OFFSET offset LIMIT limit
UnfinishedRunsPage(rows, now, offset, limit) ==
    LET all == SortRuns({r \in rows : r.state = RunStatusRunning /\ r.created_at < now})
        last == IF offset + limit < Len(all) THEN offset + limit ELSE Len(all)
    IN  SubSeq(all, offset + 1, last)

\* The caller starts the scan: postgres.Batch starts at offset 0.
GetUnfinishedRunsBegin(e) ==
    /\ pc[e] = "idle"
    /\ \E now \in Times : maint' = [NoMaint EXCEPT !.now = now]
    /\ pc' = [pc EXCEPT ![e] = "GetUnfinishedRuns_page"]
    /\ UNCHANGED <<trackerVars, created, calls, pipeline_runs, pipeline_task_runs,
                   nextRunID, nextTaskID, lock, run, req, ret>>

\* One page: a transaction that selects the page's runs.
GetUnfinishedRunsPage(e) ==
    LET runs == UnfinishedRunsPage(pipeline_runs, maint.now, maint.offset, BatchSize)
    IN  /\ pc[e] = "GetUnfinishedRuns_page"
        /\ maint' = [maint EXCEPT !.page = runs, !.count = Len(runs)]
        /\ pc' = [pc EXCEPT ![e] = "GetUnfinishedRuns_fn"]
        /\ UNCHANGED <<trackerVars, created, calls, pipeline_runs, pipeline_task_runs,
                       nextRunID, nextTaskID, lock, run, req, ret>>

\* fn is called on the next run of the page and returns nil or an error; an
\* error ends the scan.
GetUnfinishedRunsFn(e) ==
    /\ pc[e] = "GetUnfinishedRuns_fn"
    /\ maint.page # <<>>
    /\ \E failed \in BOOLEAN :
          /\ maint' = [maint EXCEPT !.seen = Append(@, Head(maint.page)),
                                     !.page = IF failed THEN <<>> ELSE Tail(@)]
          /\ IF failed
                THEN /\ ret' = [ret EXCEPT ![e] =
                            [NoRet EXCEPT !.op = "GetUnfinishedRuns", !.err = ErrFn]]
                     /\ pc' = [pc EXCEPT ![e] = "ret"]
                ELSE UNCHANGED <<ret, pc>>
    /\ UNCHANGED <<trackerVars, created, calls, pipeline_runs, pipeline_task_runs,
                   nextRunID, nextTaskID, lock, run, req>>

\* The page is done: postgres.Batch ends the scan after a short page and
\* asks for the next page, limit rows further, after a full one.
GetUnfinishedRunsNext(e) ==
    /\ pc[e] = "GetUnfinishedRuns_fn"
    /\ maint.page = <<>>
    /\ IF maint.count < BatchSize
          THEN /\ ret' = [ret EXCEPT ![e] = [NoRet EXCEPT !.op = "GetUnfinishedRuns"]]
               /\ pc' = [pc EXCEPT ![e] = "ret"]
               /\ UNCHANGED maint
          ELSE /\ maint' = [maint EXCEPT !.offset = @ + BatchSize]
               /\ pc' = [pc EXCEPT ![e] = "GetUnfinishedRuns_page"]
               /\ UNCHANGED ret
    /\ UNCHANGED <<trackerVars, created, calls, pipeline_runs, pipeline_task_runs,
                   nextRunID, nextTaskID, lock, run, req>>

\* A run that was passed to fn is driven again by an executor, which stores
\* it when it has to wait for a task: the run is suspended.
RedrivenRunSuspends ==
    /\ \E i \in 1..Len(maint.seen) :
          /\ \E r \in pipeline_runs :
                r.id = maint.seen[i].id /\ r.state = RunStatusRunning
          /\ ~Locked(maint.seen[i].id)
          /\ pipeline_runs' =
                 UpdateRunState(pipeline_runs, maint.seen[i].id, RunStatusSuspended)
    /\ UNCHANGED <<trackerVars, maint, created, calls, pipeline_task_runs, nextRunID,
                   nextTaskID, lock, run, req, pc, ret>>

\* ------------------------------------------------------------ the log ORM
\* The logs of one job in the blocks: every call for a log names its block
\* hash, its index and the job; the block number goes with the hash.
\* Mutant: the rows for the log on any chain.
BroadcastRowsAnyChain(rows, chain, n) ==
    {r \in rows : /\ r.block_hash = BlockHash(n)
                  /\ r.log_index \in LogIndexes /\ r.job_id \in JobIDs}

\* The rows of log_broadcasts for a log on a chain: the columns of the unique
\* index (job_id, block_hash, log_index, evm_chain_id).
BroadcastRows(rows, chain, n) ==
    {r \in rows : /\ r.evm_chain_id = chain /\ r.block_hash = BlockHash(n)
                  /\ r.log_index \in LogIndexes /\ r.job_id \in JobIDs}

\* The row CreateBroadcast (consumed = false) and MarkBroadcastConsumed
\* (consumed = true) insert.
BroadcastRow(chain, n, consumed) ==
    [evm_chain_id |-> chain, block_hash |-> BlockHash(n), block_number |-> n,
     log_index |-> CHOOSE i \in LogIndexes : TRUE, job_id |-> CHOOSE j \in JobIDs : TRUE,
     consumed |-> consumed]

\* A caller's call returns in one step: the call is one SQL statement.
Called(op, chain, n, value, result, err) ==
    [NoCall EXCEPT !.pc = "ret", !.op = op, !.chain = chain, !.block = n,
                   !.value = value, !.result = result, !.err = err]

\* SELECT consumed FROM log_broadcasts WHERE block_hash, log_index, job_id,
\* evm_chain_id: sql.ErrNoRows is false, nil.
WasBroadcastConsumed(p) ==
    /\ tracker[p].pc = "idle"
    /\ \E chain \in {evmChainID}, n \in BlockNumbers :
          tracker' = [tracker EXCEPT ![p] =
              Called("WasBroadcastConsumed", chain, n, Nil,
                     \E r \in BroadcastRows(log_broadcasts, chain, n) : r.consumed,
                     NULL)]
    /\ UNCHANGED <<storeVars, log_broadcasts, log_broadcasts_pending>>

\* Mutant: no unique index on the columns of the key.
UniqueViolationNever(rows, chain, n) == FALSE

\* A row with the same key is a violation of the unique index (job_id,
\* block_hash, log_index, evm_chain_id).
UniqueViolation(rows, chain, n) == BroadcastRows(rows, chain, n) # {}

\* Mutant: the INSERT overwrites the row with the same key.
InsertOverwrites(rows, chain, n) ==
    (rows \ BroadcastRows(rows, chain, n)) \cup {BroadcastRow(chain, n, FALSE)}

\* INSERT INTO log_broadcasts ... consumed = false: the statement that
\* violates the unique index inserts nothing.
InsertBroadcast(rows, chain, n) ==
    IF UniqueViolation(rows, chain, n) THEN rows
    ELSE rows \cup {BroadcastRow(chain, n, FALSE)}

CreateBroadcast(p) ==
    /\ tracker[p].pc = "idle"
    /\ \E chain \in {evmChainID}, n \in BlockNumbers :
          /\ log_broadcasts' = InsertBroadcast(log_broadcasts, chain, n)
          /\ tracker' = [tracker EXCEPT ![p] =
                 Called("CreateBroadcast", chain, n, Nil, NULL,
                        IF UniqueViolation(log_broadcasts, chain, n)
                           THEN ErrUniqueViolation ELSE NULL)]
    /\ UNCHANGED <<storeVars, log_broadcasts_pending>>

\* Mutant: the conflicting row is left as it is (DO NOTHING).
MarkConsumedDoNothing(rows, chain, n) ==
    IF BroadcastRows(rows, chain, n) = {}
       THEN rows \cup {BroadcastRow(chain, n, TRUE)}
       ELSE rows

\* INSERT ... consumed = true ON CONFLICT (job_id, block_hash, log_index,
\* evm_chain_id) DO UPDATE SET consumed = true
MarkConsumed(rows, chain, n) ==
    IF BroadcastRows(rows, chain, n) = {}
       THEN rows \cup {BroadcastRow(chain, n, TRUE)}
       ELSE {IF r \in BroadcastRows(rows, chain, n)
                THEN [r EXCEPT !.consumed = TRUE] ELSE r : r \in rows}

MarkBroadcastConsumed(p) ==
    /\ tracker[p].pc = "idle"
    /\ \E chain \in {evmChainID}, n \in BlockNumbers :
          /\ log_broadcasts' = MarkConsumed(log_broadcasts, chain, n)
          /\ tracker' = [tracker EXCEPT ![p] =
                 Called("MarkBroadcastConsumed", chain, n, Nil, NULL, NULL)]
    /\ UNCHANGED <<storeVars, log_broadcasts_pending>>

\* Mutant: the statement writes nothing.
SetPendingNothing(rows, chain, value) == rows

\* INSERT INTO log_broadcasts_pending ... ON CONFLICT (evm_chain_id) DO UPDATE
\* SET block_number
SetPending(rows, chain, value) ==
    {r \in rows : r.evm_chain_id # chain}
        \cup {[evm_chain_id |-> chain, block_number |-> value]}

SetPendingMinBlock(p) ==
    /\ tracker[p].pc = "idle"
    /\ \E chain \in {evmChainID}, value \in BlockNumbers \cup {Nil} :
          /\ log_broadcasts_pending' = SetPending(log_broadcasts_pending, chain, value)
          /\ tracker' = [tracker EXCEPT ![p] =
                 Called("SetPendingMinBlock", chain, 0, value, NULL, NULL)]
    /\ UNCHANGED <<storeVars, log_broadcasts>>

\* Mutant: the SELECT has no WHERE evm_chain_id = $1.
PendingMinBlockAnyChain(rows, chain) ==
    IF rows # {} THEN (CHOOSE r \in rows : TRUE).block_number ELSE Nil

\* SELECT block_number FROM log_broadcasts_pending WHERE evm_chain_id = $1:
\* sql.ErrNoRows is nil, nil.
PendingMinBlock(rows, chain) ==
    IF \E r \in rows : r.evm_chain_id = chain
       THEN (CHOOSE r \in rows : r.evm_chain_id = chain).block_number
       ELSE Nil

GetPendingMinBlock(p) ==
    /\ tracker[p].pc = "idle"
    /\ \E chain \in {evmChainID} :
          tracker' = [tracker EXCEPT ![p] =
              Called("GetPendingMinBlock", chain, 0, Nil,
                     PendingMinBlock(log_broadcasts_pending, chain), NULL)]
    /\ UNCHANGED <<storeVars, log_broadcasts, log_broadcasts_pending>>

\* The rows of a chain WHERE consumed = false AND block_number IS NOT NULL
\* (every row these operations insert has its block number).
UnconsumedRows(rows, chain) ==
    {r \in rows : r.evm_chain_id = chain /\ ~r.consumed}

\* Mutant: SELECT max(block_number).
getUnconsumedMaxBlock(rows, chain) ==
    IF UnconsumedRows(rows, chain) = {} THEN Nil
    ELSE CHOOSE n \in {r.block_number : r \in UnconsumedRows(rows, chain)} :
            \A r \in UnconsumedRows(rows, chain) : n >= r.block_number

\* SELECT min(block_number) ...: nil when there is no such row.
getUnconsumedMinBlock(rows, chain) ==
    IF UnconsumedRows(rows, chain) = {} THEN Nil
    ELSE CHOOSE n \in {r.block_number : r \in UnconsumedRows(rows, chain)} :
            \A r \in UnconsumedRows(rows, chain) : n <= r.block_number

\* Mutant: the DELETE has no evm_chain_id = $1.
removeUnconsumedAnyChain(rows, chain) == {r \in rows : r.consumed}

\* Mutant: the DELETE has no consumed = false.
removeEveryBroadcast(rows, chain) == {r \in rows : r.evm_chain_id # chain}

\* DELETE FROM log_broadcasts WHERE evm_chain_id = $1 AND consumed = false
removeUnconsumed(rows, chain) == rows \ UnconsumedRows(rows, chain)

\* Reinitialize, first statement: the minimum block of the unconsumed rows.
ReinitializeBegin(p) ==
    /\ tracker[p].pc = "idle"
    /\ \E chain \in {evmChainID} :
          tracker' = [tracker EXCEPT ![p] =
              [NoCall EXCEPT !.pc = "Reinitialize_pending", !.op = "Reinitialize",
                             !.chain = chain,
                             !.minUnconsumed = getUnconsumedMinBlock(log_broadcasts, chain),
                             !.unconsumed = UnconsumedRows(log_broadcasts, chain),
                             !.pending = PendingMinBlock(log_broadcasts_pending, chain)]]
    /\ UNCHANGED <<storeVars, log_broadcasts, log_broadcasts_pending>>

\* Mutant: the pending minimum block is never lowered.
UseMinUnconsumedNever(minUnconsumed, minPending) == FALSE

\* if minPending == nil || *minUnconsumed < *minPending
UseMinUnconsumed(minUnconsumed, minPending) ==
    minPending = Nil \/ minUnconsumed < minPending

\* Second statement: the pending minimum block.  With nothing unconsumed it
\* is returned as it is.
ReinitializePending(p) ==
    LET t == tracker[p]
        minPending == PendingMinBlock(log_broadcasts_pending, t.chain)
    IN  /\ t.pc = "Reinitialize_pending"
        /\ tracker' = [tracker EXCEPT ![p] =
               IF t.minUnconsumed = Nil
                  THEN [t EXCEPT !.pc = "ret", !.minPending = minPending,
                                 !.result = minPending]
               ELSE IF UseMinUnconsumed(t.minUnconsumed, minPending)
                  THEN [t EXCEPT !.pc = "Reinitialize_set", !.minPending = t.minUnconsumed]
               ELSE [t EXCEPT !.pc = "Reinitialize_remove", !.minPending = minPending]]
        /\ UNCHANGED <<storeVars, log_broadcasts, log_broadcasts_pending>>

\* Third statement: the lesser minUnconsumed is stored as the pending minimum.
ReinitializeSet(p) ==
    LET t == tracker[p] IN
    /\ t.pc = "Reinitialize_set"
    /\ log_broadcasts_pending' = SetPending(log_broadcasts_pending, t.chain, t.minPending)
    /\ tracker' = [tracker EXCEPT ![p].pc = "Reinitialize_remove"]
    /\ UNCHANGED <<storeVars, log_broadcasts>>

\* Last statement: the unconsumed rows are deleted; minPending is returned.
ReinitializeRemove(p) ==
    LET t == tracker[p] IN
    /\ t.pc = "Reinitialize_remove"
    /\ log_broadcasts' = removeUnconsumed(log_broadcasts, t.chain)
    /\ tracker' = [tracker EXCEPT ![p] = [t EXCEPT !.pc = "ret", !.result = t.minPending]]
    /\ UNCHANGED <<storeVars, log_broadcasts_pending>>

\* A statement of Reinitialize fails, or the call is canceled before it: the
\* error is returned and the statements after it are not run.
ReinitializeFails(p) ==
    /\ tracker[p].pc \in {"Reinitialize_pending", "Reinitialize_set", "Reinitialize_remove"}
    /\ tracker' = [tracker EXCEPT ![p] =
           [tracker[p] EXCEPT !.pc = "ret", !.result = Nil, !.err = ErrStorage]]
    /\ UNCHANGED <<storeVars, log_broadcasts, log_broadcasts_pending>>

\* A call of the log ORM has returned; the caller goes on.
TrackerReturn(p) ==
    /\ tracker[p].pc = "ret"
    /\ tracker' = [tracker EXCEPT ![p] = NoCall]
    /\ UNCHANGED <<storeVars, log_broadcasts, log_broadcasts_pending>>

\* ------------------------------------------------------------ specification
\* The callers make at most MaxCalls calls of the store.
Next ==
    \/ \E e \in Starters : NewRun(e)
    \/ \E e \in Executors : AddTaskRun(e)
    \/ \E e \in Executors : Finish(e)
    \/ \E e \in Resumers : FindRun(e)
    \/ \E p \in Procs : Return(p)
    \/ \E e \in Executors : calls < MaxCalls /\ CreateRun(e)
    \/ \E e \in Executors : calls < MaxCalls /\ StoreRunBegin(e)
    \/ \E e \in Executors : StoreRunLock(e)
    \/ \E e \in Executors : StoreRunSuspend(e)
    \/ \E e \in Executors : StoreRunFinishUpdate(e)
    \/ \E e \in Executors : StoreRunFinish(e)
    \/ \E e \in Executors : calls < MaxCalls /\ InsertFinishedRun(e)
    \/ \E c \in Callbacks : calls < MaxCalls /\ UpdateTaskRunResultLock(c)
    \/ \E c \in Callbacks : UpdateTaskRunResultCommit(c)

Spec == Init /\ [][Next]_vars

\* ------------------------------------------------------------- maintenance
\* The run rows the store writes, without their id: Running runs created at
\* two times, a Suspended run, Completed runs with an early and a late finish
\* time, and a run that was suspended after it was completed.
RunShapes ==
    {[state |-> RunStatusRunning, created_at |-> c, finished_at |-> 0,
      outputs |-> NULL, fatal_errors |-> <<>>] : c \in {1, 2}}
    \cup {[state |-> RunStatusSuspended, created_at |-> 1, finished_at |-> 0,
           outputs |-> NULL, fatal_errors |-> <<>>]}
    \cup {[state |-> RunStatusCompleted, created_at |-> 1, finished_at |-> f,
           outputs |-> "out", fatal_errors |-> <<NULL>>] : f \in {2, MaxTime}}
    \cup {[state |-> RunStatusSuspended, created_at |-> 1, finished_at |-> 2,
           outputs |-> "out", fatal_errors |-> <<NULL>>]}

\* The task rows of run id in the initial table: none, one or two.
InitTaskRows(id) ==
    {[id |-> 10 * id + k, pipeline_run_id |-> id,
      dot_id |-> IF k = 1 THEN "ds1" ELSE "ds2", type |-> "bridge", index |-> 0,
      output |-> NULL, error |-> NULL, created_at |-> 1, finished_at |-> 0] :
        k \in 1..((id - 1) % 3)}

\* Up to MaxRuns runs are persisted, with their task rows; no call is in
\* progress.
InitMaint ==
    /\ \E n \in 0..MaxRuns : \E shape \in [1..n -> RunShapes] :
          /\ pipeline_runs =
                 {[id |-> i, state |-> shape[i].state, created_at |-> shape[i].created_at,
                   finished_at |-> shape[i].finished_at, outputs |-> shape[i].outputs,
                   fatal_errors |-> shape[i].fatal_errors] : i \in 1..n}
          /\ pipeline_task_runs = UNION {InitTaskRows(i) : i \in 1..n}
          /\ nextRunID = n + 1
    /\ nextTaskID = 1
    /\ lock = {}
    /\ run = [e \in Executors |-> ZeroRun]
    /\ req = [c \in Posters |-> NoReq]
    /\ pc = [p \in Procs |-> "idle"]
    /\ ret = [p \in Procs |-> NoRet]
    /\ calls = 0
    /\ created = {}
    /\ maint = NoMaint
    /\ log_broadcasts = {}
    /\ log_broadcasts_pending = {}
    /\ tracker = [p \in Trackers |-> NoCall]

\* One caller makes one maintenance call after the other, while the runs it
\* was handed by the scan are driven again.
NextMaint ==
    \/ DeleteRun("e1")
    \/ DeleteRunsOlderThan("e1")
    \/ GetUnfinishedRunsBegin("e1")
    \/ GetUnfinishedRunsPage("e1")
    \/ GetUnfinishedRunsFn("e1")
    \/ GetUnfinishedRunsNext("e1")
    \/ RedrivenRunSuspends
    \/ Return("e1")

SpecMaint == InitMaint /\ [][NextMaint]_vars

\* ------------------------------------------------- results for a suspended run
\* A task row of run 1: pending, or with a result posted before.
SuspendedTaskRow(id, posted) ==
    [id |-> id, pipeline_run_id |-> 1, dot_id |-> IF id = 1 THEN "ds1" ELSE "ds2",
     type |-> "bridge", index |-> 0,
     output |-> IF posted THEN "out" ELSE NULL, error |-> NULL,
     created_at |-> 1, finished_at |-> IF posted THEN 1 ELSE 0]

\* Run 1 was suspended by StoreRun with two task rows, at least one of them
\* pending; no call is in progress.
InitResume ==
    /\ pipeline_runs =
           {[id |-> 1, state |-> RunStatusSuspended, created_at |-> 1, finished_at |-> 0,
             outputs |-> NULL, fatal_errors |-> <<>>]}
    /\ \E posted \in [{1, 2} -> BOOLEAN] :
          /\ \E id \in {1, 2} : ~posted[id]
          /\ pipeline_task_runs = {SuspendedTaskRow(id, posted[id]) : id \in {1, 2}}
    /\ nextRunID = 2
    /\ nextTaskID = 1
    /\ lock = {}
    /\ run = [e \in Executors |-> ZeroRun]
    /\ req = [c \in Posters |-> NoReq]
    /\ pc = [p \in Procs |-> "idle"]
    /\ ret = [p \in Procs |-> NoRet]
    /\ calls = 0
    /\ created = {}
    /\ maint = NoMaint
    /\ log_broadcasts = {}
    /\ log_broadcasts_pending = {}
    /\ tracker = [p \in Trackers |-> NoCall]

\* The result-posting paths call UpdateTaskRunResult, each once, for the
\* same task or another, at the same time or one after the other; no
\* StoreRun suspends the run again.
NextResume ==
    \/ \E c \in Posters : UpdateTaskRunResultLock(c)
    \/ \E c \in Posters : UpdateTaskRunResultCommit(c)

SpecResume == InitResume /\ [][NextResume]_vars

\* ------------------------------------------------------------ the tracker
\* The callers of the log ORM make any calls, in any order, concurrently.
NextTracker ==
    \/ \E p \in Trackers : WasBroadcastConsumed(p)
    \/ \E p \in Trackers : CreateBroadcast(p)
    \/ \E p \in Trackers : MarkBroadcastConsumed(p)
    \/ \E p \in Trackers : SetPendingMinBlock(p)
    \/ \E p \in Trackers : GetPendingMinBlock(p)
    \/ \E p \in Trackers : ReinitializeBegin(p)
    \/ \E p \in Trackers : ReinitializePending(p)
    \/ \E p \in Trackers : ReinitializeSet(p)
    \/ \E p \in Trackers : ReinitializeRemove(p)
    \/ \E p \in Trackers : TrackerReturn(p)

\* What the ORM of the other chain has left in the tables.
OtherChain == CHOOSE c \in ChainIDs : c # evmChainID
OtherChainRows ==
    {[logs |-> {}, pending |-> {}],
     [logs |-> {BroadcastRow(OtherChain, 1, TRUE)},
      pending |-> {[evm_chain_id |-> OtherChain, block_number |-> 1]}],
     [logs |-> {BroadcastRow(OtherChain, 1, FALSE)}, pending |-> {}]}

\* The pipeline ORM's tables are empty and none of its callers is in a call.
InitStore ==
    /\ pipeline_runs = {}
    /\ pipeline_task_runs = {}
    /\ nextRunID = 1
    /\ nextTaskID = 1
    /\ lock = {}
    /\ run = [e \in Executors |-> ZeroRun]
    /\ req = [c \in Posters |-> NoReq]
    /\ pc = [p \in Procs |-> "idle"]
    /\ ret = [p \in Procs |-> NoRet]
    /\ calls = 0
    /\ created = {}
    /\ maint = NoMaint

InitTracker ==
    /\ InitStore
    /\ tracker = [p \in Trackers |-> NoCall]
    /\ \E other \in OtherChainRows :
          /\ log_broadcasts = other.logs
          /\ log_broadcasts_pending = other.pending

SpecTracker == InitTracker /\ [][NextTracker]_vars

\* ------------------------------------------------- Reinitialize, twice
\* The rows of the ORM's chain that calls before have left: each log has no
\* row, an unconsumed row or a consumed row, and the pending minimum block
\* has no row, a NULL or a block.
BroadcastTables ==
    {{BroadcastRow(evmChainID, n, consumed[n]) : n \in logs} :
        logs \in SUBSET BlockNumbers, consumed \in [BlockNumbers -> BOOLEAN]}
PendingTables ==
    {{}} \cup {{[evm_chain_id |-> evmChainID, block_number |-> n]} :
                  n \in BlockNumbers \cup {Nil}}

InitReinit ==
    /\ InitStore
    /\ tracker = [p \in Trackers |-> NoCall]
    /\ \E rows \in BroadcastTables, pending \in PendingTables, other \in OtherChainRows :
          /\ log_broadcasts = rows \cup other.logs
          /\ log_broadcasts_pending = pending \cup other.pending

\* One caller calls Reinitialize and, when it has returned, another does;
\* nothing else is called.
NextReinit ==
    \/ ReinitializeBegin("t1")
    \/ tracker["t1"].pc = "ret" /\ ReinitializeBegin("t2")
    \/ \E p \in Trackers : ReinitializePending(p)
    \/ \E p \in Trackers : ReinitializeSet(p)
    \/ \E p \in Trackers : ReinitializeRemove(p)

SpecReinit == InitReinit /\ [][NextReinit]_vars

\* ------------------------------------------- Reinitialize, failing and again
\* One caller calls Reinitialize, which may fail at any statement, and when
\* it has returned another caller does the same: the node that failed, or
\* crashed, starts again.
NextFail ==
    \/ ReinitializeBegin("t1")
    \/ tracker["t1"].pc = "ret" /\ ReinitializeBegin("t2")
    \/ \E p \in Trackers : ReinitializePending(p)
    \/ \E p \in Trackers : ReinitializeSet(p)
    \/ \E p \in Trackers : ReinitializeRemove(p)
    \/ \E p \in Trackers : ReinitializeFails(p)

SpecFail == InitReinit /\ [][NextFail]_vars

\* --------------------------------------- Reinitialize and CreateBroadcast
\* One caller calls Reinitialize while another calls CreateBroadcast, any
\* number of times: logs are delivered while the node reinitializes.
NextCreate ==
    \/ ReinitializeBegin("t1")
    \/ ReinitializePending("t1")
    \/ ReinitializeSet("t1")
    \/ ReinitializeRemove("t1")
    \/ CreateBroadcast("t2")
    \/ TrackerReturn("t2")

SpecCreate == InitReinit /\ [][NextCreate]_vars

\* ---------------------------------------------------------------- the race
\* The result is posted to a task that is pending in the table.
PostsToPendingTask(c) ==
    \E tr \in pipeline_task_runs : tr.id = req'[c].taskID /\ IsPending(tr)

\* Executor e1 creates a run and stores it once while it is unfinished;
\* callback c1 posts one result to one of the run's pending tasks.  The two
\* calls are made in any order and interleave in every way the lock allows.
NextRace ==
    \/ NewRun("e1")
    \/ AddTaskRun("e1")
    \/ calls = 0 /\ CreateRun("e1")
    \/ ret["e1"].op = "CreateRun" /\ ret["e1"].err = NULL /\ Return("e1")
    \/ StoreRunBegin("e1")
    \/ StoreRunLock("e1")
    \/ StoreRunSuspend("e1")
    \/ UpdateTaskRunResultLock("c1") /\ PostsToPendingTask("c1")
    \/ UpdateTaskRunResultCommit("c1")

SpecRace == Init /\ [][NextRace]_vars

\* ------------------------------------------------------------ the sequence
\* Executor e1 builds a run, creates it, stores it (it is suspended); c1
\* posts the result of one pending task; e1 resumes the run returned to c1,
\* finishes it and stores it.  A caller stops at the first error.
NextSeq ==
    \/ NewRun("e1")
    \/ calls = 0 /\ AddTaskRun("e1")
    \/ calls = 0 /\ CreateRun("e1")
    \/ calls < 4 /\ ret["e1"].err = NULL /\ Return("e1")
    \/ calls = 1 /\ StoreRunBegin("e1")
    \/ StoreRunLock("e1")
    \/ StoreRunSuspend("e1")
    \/ /\ calls = 2 /\ pc["e1"] = "idle"
       /\ UpdateTaskRunResultLock("c1") /\ PostsToPendingTask("c1")
    \/ UpdateTaskRunResultCommit("c1")
    \/ ResumeRun("e1", "c1")
    \/ calls = 3 /\ run["e1"] = ret["c1"].run /\ Finish("e1")
    \/ calls = 3 /\ run["e1"].FinishedAt # 0 /\ StoreRunBegin("e1")
    \/ StoreRunFinishUpdate("e1")
    \/ StoreRunFinish("e1")

SpecSeq == Init /\ [][NextSeq]_vars

\* ------------------------------------------------------------------ claims
\* A call of operation op by process p returns in this step.
Returns(p, op) == pc[p] # "ret" /\ pc'[p] = "ret" /\ ret'[p].op = op

\* Process p is in a StoreRun or UpdateTaskRunResult transaction on run id,
\* past the statement that reads or first touches the run row (the SELECT
\* ... FOR UPDATE; for a finished run the UPDATE of the run row) and before
\* its commit.
InCall(p, id) ==
    \/ p \in Executors /\ pc[p] \in {"StoreRun_locked", "StoreRun_finishing"}
          /\ run[p].ID = id
    \/ p \in Posters /\ pc[p] = "UpdateTaskRunResult_locked" /\ req[p].runID = id

\* The run row of executor e's run.
RunRowOf(e) == CHOOSE r \in pipeline_runs : r.id = run[e].ID

\* The task rows that carry the result c posted, on the task c posted it to.
RowsWithResult(c) ==
    {tr \in pipeline_task_runs :
        /\ tr.id = req[c].taskID
        /\ tr.output = req[c].output /\ tr.error = req[c].error
        /\ tr.finished_at # 0}

\* Both calls of the race have returned.
RaceDone ==
    /\ pc["e1"] = "ret" /\ ret["e1"].op = "StoreRun"
    /\ pc["c1"] = "ret" /\ ret["c1"].op = "UpdateTaskRunResult"

\* C1: when StoreRun of an unfinished run and UpdateTaskRunResult for one of
\* its pending tasks have both returned, the posted result is on the task
\* row, and the run is either Suspended, or Running with the continue signal
\* (restart, start) returned to exactly one of the two callers.
C1_RaceNeverLosesResult ==
    RaceDone =>
        /\ RowsWithResult("c1") # {}
        /\ (RunRowOf("e1").state = RunStatusSuspended)
              # (/\ RunRowOf("e1").state = RunStatusRunning
                 /\ ret["e1"].signal # ret["c1"].signal)

\* StoreRun took the lock first and suspended the run; the result was posted
\* to the suspended run and UpdateTaskRunResult returned start = true.
C1_Witness ==
    /\ RaceDone
    /\ ret["c1"].signal /\ ~ret["e1"].signal
    /\ run["e1"].State = RunStatusSuspended

\* C2: of the two racing calls exactly one returns its continue signal, the
\* run row ends Running, and exactly one task row of the run carries the
\* posted result: the row of the task it was posted to.
C2_ExactlyOneContinues ==
    RaceDone =>
        /\ ret["e1"].signal # ret["c1"].signal
        /\ RunRowOf("e1").state = RunStatusRunning
        /\ Cardinality(RowsWithResult("c1")) = 1
        /\ \A x \in RowsWithResult("c1"), y \in TaskRows(run["e1"].ID) :
              y.dot_id = x.dot_id => y = x

\* UpdateTaskRunResult took the lock first, while the run was Running;
\* StoreRun found the new data and returned restart = true with the posted
\* result swapped into the run it holds.
C2_Witness ==
    /\ RaceDone
    /\ ret["e1"].signal /\ ~ret["c1"].signal
    /\ \E tr \in run["e1"].PipelineTaskRuns : tr \in RowsWithResult("c1")

\* C3: no two StoreRun / UpdateTaskRunResult calls on the same persisted run
\* are between their read of the run row and their commit at once, whether
\* StoreRun takes its unfinished or its finished path.
C3_MutualExclusion ==
    \A r \in pipeline_runs : \A p \in Procs, q \in Procs :
        p # q => ~(InCall(p, r.id) /\ InCall(q, r.id))

\* A finished-path StoreRun is between its UPDATE of the run row and its
\* commit while an unfinished-path StoreRun of the same run waits at its
\* SELECT ... FOR UPDATE.
C3_Witness ==
    \E r \in pipeline_runs : \E p \in Executors, e \in Executors :
        /\ p # e
        /\ pc[p] = "StoreRun_finishing" /\ run[p].ID = r.id
        /\ pc[e] = "StoreRun_tx" /\ run[e].FinishedAt = 0 /\ run[e].ID = r.id

\* No two task rows share (pipeline_run_id, dot_id).
UniqueTaskRows ==
    \A a \in pipeline_task_runs, b \in pipeline_task_runs : SameKey(a, b) => a = b

\* A returning StoreRun leaves every task row in place with its id, run,
\* dot id, type, index and creation time.
StoreRunKeepsColumns ==
    \A e \in Executors : Returns(e, "StoreRun") =>
        \A x \in pipeline_task_runs : \E y \in pipeline_task_runs' :
            /\ y.id = x.id /\ SameKey(y, x)
            /\ y.type = x.type /\ y.index = x.index /\ y.created_at = x.created_at

\* C4: at most one task row per (run id, dot id) in every reachable state,
\* and the upsert of StoreRun changes only output, error and finish time of a
\* row it hits.
C4_UniqueTaskRows == [](UniqueTaskRows) /\ [][StoreRunKeepsColumns]_vars

\* e2's StoreRun has upserted a task run it built itself onto the row that
\* e1 stored for the same node: the row has e2's output and e1's id and type.
C4_Witness ==
    /\ calls = 3
    /\ pc["e2"] = "ret" /\ ret["e2"].op = "StoreRun" /\ ret["e2"].err = NULL
    /\ run["e1"].State = RunStatusSuspended
    /\ \E x \in pipeline_task_runs, tr \in run["e1"].PipelineTaskRuns :
          /\ x.id = tr.id /\ IsPending(tr)
          /\ x.output = "out" /\ x.type = TaskProto("e1").type

\* C5 as stated: a Completed run row has outputs and fatal errors, a Running
\* or Suspended run row has no finish time.
C5_RunRowInvariant ==
    \A r \in pipeline_runs :
        /\ r.state = RunStatusCompleted => r.outputs # NULL /\ Len(r.fatal_errors) > 0
        /\ r.state \in {RunStatusRunning, RunStatusSuspended} => r.finished_at = 0

\* C6 as stated: a Completed run row is never changed again.
C6_CompletedIsTerminal ==
    [][\A r \in pipeline_runs : r.state = RunStatusCompleted => r \in pipeline_runs']_vars

\* The sequence has ended: the StoreRun of the finished run has succeeded.
SeqDone ==
    /\ calls = 4
    /\ pc["e1"] = "ret" /\ ret["e1"].op = "StoreRun" /\ ret["e1"].err = NULL

\* C7: after CreateRun, StoreRun (suspend), UpdateTaskRunResult on one
\* pending task and StoreRun (finish), the run row is Completed with outputs
\* and fatal errors; the task rows are the rows CreateRun inserted, one per
\* (run id, dot id), with the same id, and with the same output and error
\* except for the task the result was posted to, which has that result.
C7_SequenceEndsCompleted ==
    SeqDone =>
        /\ RunRowOf("e1").state = RunStatusCompleted
        /\ RunRowOf("e1").outputs # NULL /\ Len(RunRowOf("e1").fatal_errors) > 0
        /\ RunRowOf("e1").finished_at # 0
        /\ Cardinality(RunRows(run["e1"].ID)) = 1
        /\ Cardinality(pipeline_task_runs) = Cardinality(created)
        /\ UniqueTaskRows
        /\ \A tr \in created : \E x \in pipeline_task_runs :
              /\ x.id = tr.id /\ SameKey(x, tr)
              /\ IF tr.id = req["c1"].taskID
                    THEN x \in RowsWithResult("c1")
                    ELSE x.output = tr.output /\ x.error = tr.error

\* The sequence has ended for a run created with two tasks, one of which
\* had its output before the run was created.
C7_Witness ==
    /\ SeqDone
    /\ Cardinality(created) = 2
    /\ \E tr \in created : ~IsPending(tr) /\ tr.id # req["c1"].taskID
    /\ RowsWithResult("c1") # {}

\* The task id is unknown, or every run owning it is Completed.
NoLiveRun(taskID) ==
    \A tr \in pipeline_task_runs : tr.id = taskID =>
        \A r \in pipeline_runs : r.id = tr.pipeline_run_id => r.state = RunStatusCompleted

\* C8: UpdateTaskRunResult for an unknown task id or for a task of a
\* Completed run returns sql.ErrNoRows with start = false and changes no row.
C8_NoRowsForCompleted ==
    [][\A c \in Callbacks :
          (pc[c] = "idle" /\ pc'[c] # "idle" /\ NoLiveRun(req'[c].taskID)) =>
              /\ pc'[c] = "ret"
              /\ ret'[c].op = "UpdateTaskRunResult"
              /\ ret'[c].err = sqlErrNoRows
              /\ ~ret'[c].signal
              /\ pipeline_runs' = pipeline_runs
              /\ pipeline_task_runs' = pipeline_task_runs
              /\ lock' = lock]_vars

\* UpdateTaskRunResult returned sql.ErrNoRows for a task of a Completed run.
C8_Witness ==
    \E c \in Callbacks :
        /\ pc[c] = "ret" /\ ret[c].err = sqlErrNoRows
        /\ \E tr \in pipeline_task_runs : tr.id = req[c].taskID /\
              \E r \in pipeline_runs :
                  r.id = tr.pipeline_run_id /\ r.state = RunStatusCompleted

\* C9: CreateRun fails and persists nothing when the creation time is unset;
\* otherwise it persists the run row and one row per task run it carries,
\* linked to the new run id, or it fails and persists nothing.
C9_CreateRunAtomic ==
    [][\A e \in Executors : Returns(e, "CreateRun") =>
          LET newRuns == pipeline_runs' \ pipeline_runs
              newTasks == pipeline_task_runs' \ pipeline_task_runs
          IN  /\ pipeline_runs \subseteq pipeline_runs'
              /\ pipeline_task_runs \subseteq pipeline_task_runs'
              /\ run[e].CreatedAt = 0 => ret'[e].err # NULL
              /\ ret'[e].err # NULL => newRuns = {} /\ newTasks = {}
              /\ ret'[e].err = NULL =>
                    /\ Cardinality(newRuns) = 1
                    /\ \A x \in newRuns :
                          x.id = run'[e].ID /\ \A y \in pipeline_runs : y.id # x.id
                    /\ Cardinality(newTasks) = Cardinality(run[e].PipelineTaskRuns)
                    /\ \A tr \in run[e].PipelineTaskRuns : \E x \in newTasks :
                          /\ x.id = tr.id /\ x.dot_id = tr.dot_id
                          /\ x.pipeline_run_id = run'[e].ID]_vars

\* CreateRun failed after the insert of the run row (the run has its id) and
\* neither the run row nor a task row is there.
C9_Witness ==
    \E e \in Executors :
        /\ pc[e] = "ret" /\ ret[e].op = "CreateRun" /\ ret[e].err = ErrStorage
        /\ run[e].ID # 0 /\ run[e].PipelineTaskRuns # {}
        /\ RunRows(run[e].ID) = {} /\ TaskRows(run[e].ID) = {}

\* The run passes the checks InsertFinishedRun makes before it writes.
ValidFinishedRun(r, saveSuccessfulTaskRuns) ==
    /\ r.CreatedAt # 0 /\ r.FinishedAt # 0
    /\ r.Outputs # NULL /\ Len(r.FatalErrors) > 0
    /\ r.PipelineTaskRuns # {} \/ ~(saveSuccessfulTaskRuns \/ HasErrors(r))

\* C10: InsertFinishedRun of a valid finished run persists the run row; it
\* persists no task row when saveSuccessfulTaskRuns is false and the run has
\* no errors, and every task row of the run otherwise.
C10_InsertFinishedRunTaskRows ==
    [][\A e \in Executors :
          (Returns(e, "InsertFinishedRun") /\ ValidFinishedRun(run[e], ret'[e].arg)) =>
              LET newRuns == pipeline_runs' \ pipeline_runs
                  newTasks == pipeline_task_runs' \ pipeline_task_runs
              IN  /\ ret'[e].err = NULL
                  /\ pipeline_runs \subseteq pipeline_runs'
                  /\ pipeline_task_runs \subseteq pipeline_task_runs'
                  /\ Cardinality(newRuns) = 1
                  /\ \A x \in newRuns : x.id = run'[e].ID
                  /\ IF ~ret'[e].arg /\ ~HasErrors(run[e])
                        THEN newTasks = {}
                        ELSE /\ Cardinality(newTasks) = Cardinality(run[e].PipelineTaskRuns)
                             /\ \A tr \in run[e].PipelineTaskRuns : \E x \in newTasks :
                                   /\ x.id = tr.id /\ x.dot_id = tr.dot_id
                                   /\ x.pipeline_run_id = run'[e].ID]_vars

\* InsertFinishedRun with saveSuccessfulTaskRuns = false stored a run without
\* errors that has task runs: the run row is there, no task row is.
C10_Witness ==
    \E e \in Executors :
        /\ pc[e] = "ret" /\ ret[e].op = "InsertFinishedRun" /\ ret[e].err = NULL
        /\ ~ret[e].arg /\ ~HasErrors(run[e])
        /\ run[e].PipelineTaskRuns # {}
        /\ RunRows(run[e].ID) # {} /\ TaskRows(run[e].ID) = {}

\* The errors of InsertFinishedRun's checks of the run it is given.
ValidationErrors == {ErrCreatedAt, ErrFinishedAt, ErrOutputsErrors, ErrNoTaskRuns}

\* C11: InsertFinishedRun of a run without creation time, finish time,
\* outputs or fatal errors, or without task runs when task rows are to be
\* saved, returns a validation error and persists no run row and no task row.
C11_InsertFinishedRunValidation ==
    [][\A e \in Executors :
          (Returns(e, "InsertFinishedRun") /\ ~ValidFinishedRun(run[e], ret'[e].arg)) =>
              /\ ret'[e].err \in ValidationErrors
              /\ pipeline_runs' = pipeline_runs
              /\ pipeline_task_runs' = pipeline_task_runs
              /\ nextRunID' = nextRunID]_vars

\* InsertFinishedRun refused a finished run that has a creation time and a
\* finish time and no outputs.
C11_Witness ==
    \E e \in Executors :
        /\ pc[e] = "ret" /\ ret[e].op = "InsertFinishedRun"
        /\ ret[e].err = ErrOutputsErrors
        /\ run[e].CreatedAt # 0 /\ run[e].FinishedAt # 0 /\ run[e].Outputs = NULL
        /\ run[e].ID = 0 /\ pipeline_runs = {}

\* C12: after DeleteRun(id) the run row id and its task rows are gone, and
\* every other run row and task row is as it was.
C12_DeleteRunFrame ==
    [][Returns("e1", "DeleteRun") =>
          /\ pipeline_runs' = {r \in pipeline_runs : r.id # maint'.id}
          /\ pipeline_task_runs' =
                 {tr \in pipeline_task_runs : tr.pipeline_run_id # maint'.id}]_vars

\* DeleteRun(3) has returned: run 3, which had task rows, is gone with them,
\* and run 2 and its task row are there.
C12_Witness ==
    /\ pc["e1"] = "ret" /\ ret["e1"].op = "DeleteRun" /\ maint.id = 3
    /\ nextRunID = 4
    /\ RunRows(3) = {} /\ TaskRows(3) = {}
    /\ RunRows(2) # {} /\ TaskRows(2) # {}

\* C13: DeleteRunsOlderThan(age) removes the runs that have a finish time
\* before now - age and no other run; a run without finish time stays; the
\* task rows of the runs that stay are as they were.
C13_DeleteRunsOlderThanExact ==
    [][Returns("e1", "DeleteRunsOlderThan") =>
          /\ \A r \in pipeline_runs :
                r \in pipeline_runs' <=>
                    (r.finished_at = 0 \/ r.finished_at >= maint'.now - maint'.age)
          /\ pipeline_runs' \subseteq pipeline_runs
          /\ pipeline_task_runs' =
                 {tr \in pipeline_task_runs :
                     \E r \in pipeline_runs' : r.id = tr.pipeline_run_id}]_vars

\* DeleteRunsOlderThan has removed a run and left a Running run that was
\* created before the cutoff.
C13_Witness ==
    /\ pc["e1"] = "ret" /\ ret["e1"].op = "DeleteRunsOlderThan"
    /\ maint.now = MaxTime /\ maint.age = 0
    /\ Cardinality(pipeline_runs) < nextRunID - 1
    /\ \E r \in pipeline_runs :
          r.state = RunStatusRunning /\ r.created_at < maint.now - maint.age

\* The scan has returned without error.
ScanDone ==
    pc["e1"] = "ret" /\ ret["e1"].op = "GetUnfinishedRuns" /\ ret["e1"].err = NULL

\* C14 as stated: when the scan returns without error, fn was called once
\* for each run that is Running and was created before the threshold (no run
\* is made Running during the scan, so such a run was Running all along), and
\* only for runs that were Running and created before the threshold; when fn
\* fails, the scan returns its error and the failing call is the last.
C14_ScanCallsFnOncePerRunningRun ==
    /\ ScanDone =>
          /\ \A i \in 1..Len(maint.seen) :
                /\ maint.seen[i].state = RunStatusRunning
                /\ maint.seen[i].created_at < maint.now
          /\ \A i \in 1..Len(maint.seen), j \in 1..Len(maint.seen) :
                maint.seen[i].id = maint.seen[j].id => i = j
          /\ \A r \in pipeline_runs :
                (r.state = RunStatusRunning /\ r.created_at < maint.now) =>
                    \E i \in 1..Len(maint.seen) : maint.seen[i].id = r.id
    /\ (pc["e1"] = "ret" /\ ret["e1"].err = ErrFn) =>
          ret["e1"].op = "GetUnfinishedRuns" /\ maint.page = <<>>


\* ------------------------------------------------------------ the log rows
\* A call of the log ORM by p returns in this step.
TrackerReturns(p, op) ==
    /\ tracker[p].pc # "ret"
    /\ tracker'[p].pc = "ret"
    /\ tracker'[p].op = op

\* The rows for the log in block n on the ORM's chain.
RowsOf(n) == BroadcastRows(log_broadcasts, evmChainID, n)

SameLog(r1, r2) ==
    /\ r1.evm_chain_id = r2.evm_chain_id
    /\ r1.block_hash = r2.block_hash
    /\ r1.log_index = r2.log_index
    /\ r1.job_id = r2.job_id

OneRowPerLog == \A r1, r2 \in log_broadcasts : SameLog(r1, r2) => r1 = r2

\* C15: log_broadcasts has at most one row for a chain id, block hash, log
\* index and job id, and a row that is consumed stays: no step of
\* CreateBroadcast, MarkBroadcastConsumed, SetPendingMinBlock or Reinitialize
\* removes it or makes it unconsumed.
C15_ConsumedIsMonotonic ==
    /\ []OneRowPerLog
    /\ [][\A r \in log_broadcasts : r.consumed => r \in log_broadcasts']_vars

\* A consumed row has survived a Reinitialize that deleted rows and a
\* CreateBroadcast for its log.
C15_Witness ==
    \E p, q \in Trackers, n \in BlockNumbers :
        /\ tracker[p].pc = "ret" /\ tracker[p].op = "Reinitialize"
        /\ tracker[p].minUnconsumed # Nil
        /\ tracker[q].pc = "ret" /\ tracker[q].op = "CreateBroadcast"
        /\ tracker[q].block = n /\ tracker[q].err # NULL
        /\ \E r \in RowsOf(n) : r.consumed

\* C16: MarkBroadcastConsumed is idempotent: called for a log, with or
\* without a row, once or again, it returns no error and leaves exactly one
\* row for the log, consumed; on a consumed row it changes nothing.
C16_MarkBroadcastConsumedIdempotent ==
    [][\A p \in Trackers :
          TrackerReturns(p, "MarkBroadcastConsumed") =>
              LET after == BroadcastRows(log_broadcasts', evmChainID, tracker'[p].block) IN
              /\ tracker'[p].err = NULL
              /\ Cardinality(after) = 1
              /\ \A r \in after : r.consumed
              /\ (\E r \in RowsOf(tracker'[p].block) : r.consumed) =>
                     log_broadcasts' = log_broadcasts]_vars

\* Two calls of MarkBroadcastConsumed for the same log have returned.
C16_Witness ==
    \E n \in BlockNumbers :
        /\ \A p \in Trackers :
              /\ tracker[p].pc = "ret" /\ tracker[p].op = "MarkBroadcastConsumed"
              /\ tracker[p].block = n
        /\ \E r \in RowsOf(n) : r.consumed

\* C17: calls of MarkBroadcastConsumed, and of CreateBroadcast, for the same
\* log that run concurrently: in whatever order their statements take
\* effect, once a MarkBroadcastConsumed has returned there is exactly one row
\* for the log and it is consumed, with no lock but the unique index.
C17_ConcurrentMarkAndCreate ==
    \A p \in Trackers :
        (tracker[p].pc = "ret" /\ tracker[p].op = "MarkBroadcastConsumed") =>
            /\ Cardinality(RowsOf(tracker[p].block)) = 1
            /\ \A r \in RowsOf(tracker[p].block) : r.consumed

\* A CreateBroadcast has inserted the row and, before its caller went on, a
\* MarkBroadcastConsumed for the same log has returned.
C17_Witness ==
    \E p, q \in Trackers :
        /\ tracker[p].pc = "ret" /\ tracker[p].op = "MarkBroadcastConsumed"
        /\ tracker[q].pc = "ret" /\ tracker[q].op = "CreateBroadcast"
        /\ tracker[q].block = tracker[p].block
        /\ tracker[q].err = NULL

\* C18: WasBroadcastConsumed for a log returns true exactly when there is a
\* row for the log on the ORM's chain and it is consumed; with no row or an
\* unconsumed row it returns false; it never returns an error and it writes
\* nothing.
C18_WasBroadcastConsumedReadsTheRow ==
    [][\A p \in Trackers :
          TrackerReturns(p, "WasBroadcastConsumed") =>
              /\ tracker'[p].err = NULL
              /\ tracker'[p].result =
                    (\E r \in log_broadcasts :
                        /\ r.evm_chain_id = evmChainID
                        /\ r.block_hash = BlockHash(tracker'[p].block)
                        /\ r.consumed)
              /\ log_broadcasts' = log_broadcasts
              /\ log_broadcasts_pending' = log_broadcasts_pending]_vars

\* After a MarkBroadcastConsumed for a log, WasBroadcastConsumed for it has
\* returned true.
C18_Witness ==
    \E p, q \in Trackers :
        /\ tracker[p].pc = "ret" /\ tracker[p].op = "MarkBroadcastConsumed"
        /\ tracker[q].pc = "ret" /\ tracker[q].op = "WasBroadcastConsumed"
        /\ tracker[q].block = tracker[p].block
        /\ tracker[q].result = TRUE

\* C19: CreateBroadcast for a log that has a row returns an error and leaves
\* the table, the consumed flag of the row included, as it was; for a log
\* without a row it returns no error and inserts one row, unconsumed, and
\* nothing else.
C19_CreateBroadcastInsertsOrFails ==
    [][\A p \in Trackers :
          TrackerReturns(p, "CreateBroadcast") =>
              LET mine == {r \in log_broadcasts :
                              /\ r.evm_chain_id = evmChainID
                              /\ r.block_hash = BlockHash(tracker'[p].block)}
                  added == log_broadcasts' \ log_broadcasts
              IN  /\ log_broadcasts \subseteq log_broadcasts'
                  /\ mine # {} => (tracker'[p].err # NULL /\ added = {})
                  /\ mine = {} =>
                        /\ tracker'[p].err = NULL
                        /\ Cardinality(added) = 1
                        /\ \A r \in added :
                              /\ r.evm_chain_id = evmChainID
                              /\ r.block_hash = BlockHash(tracker'[p].block)
                              /\ ~r.consumed]_vars

\* CreateBroadcast has returned an error for a log whose row is consumed.
C19_Witness ==
    \E p \in Trackers :
        /\ tracker[p].pc = "ret" /\ tracker[p].op = "CreateBroadcast"
        /\ tracker[p].err = ErrUniqueViolation
        /\ \E r \in RowsOf(tracker[p].block) : r.consumed


\* ------------------------------------------------------ Reinitialize, twice
\* The unconsumed rows of the ORM's chain.
Unconsumed == {r \in log_broadcasts : r.evm_chain_id = evmChainID /\ ~r.consumed}

ReinitializeReturned(p) == tracker[p].pc = "ret" /\ tracker[p].op = "Reinitialize"

\* C20: Reinitialize is idempotent: called twice in a row, with no other call
\* of the log ORM in between, it returns the same pending minimum block both
\* times, there is no unconsumed row of the chain after either call, and the
\* second call changes no row.
C20_ReinitializeIdempotent ==
    /\ [](\A p \in Trackers : ReinitializeReturned(p) => Unconsumed = {})
    /\ []((ReinitializeReturned("t1") /\ ReinitializeReturned("t2")) =>
              tracker["t1"].result = tracker["t2"].result)
    /\ [][ReinitializeReturned("t1") =>
              /\ log_broadcasts' = log_broadcasts
              /\ log_broadcasts_pending' = log_broadcasts_pending]_vars

\* The first call stored the block of an unconsumed row as the pending
\* minimum, deleted the row and returned the block; the second returned it
\* again.
C20_Witness ==
    /\ ReinitializeReturned("t1") /\ ReinitializeReturned("t2")
    /\ tracker["t1"].minUnconsumed # Nil
    /\ tracker["t1"].result = tracker["t1"].minUnconsumed
    /\ tracker["t2"].minUnconsumed = Nil
    /\ tracker["t2"].result = tracker["t1"].result


\* --------------------------------------------- Reinitialize, step by step
\* The pending minimum block of the ORM's chain that is in the table.
PersistedPending == PendingMinBlock(log_broadcasts_pending, evmChainID)

\* C21: Reinitialize never lets recovery skip unacknowledged work.  At every
\* step of it, and when it has failed between two steps and is run again,
\* each row that was unconsumed when it began is still in the table or the
\* pending minimum block in the table is set and at most the row's block; and
\* the block it returns is at most the block of every row it deleted.
C21_ReinitializeNeverSkips ==
    \A p \in Trackers :
        tracker[p].op = "Reinitialize" =>
            /\ \A r \in tracker[p].unconsumed :
                  \/ r \in log_broadcasts
                  \/ PersistedPending # Nil /\ PersistedPending <= r.block_number
            /\ (tracker[p].pc = "ret" /\ tracker[p].err = NULL) =>
                  \A r \in tracker[p].unconsumed \ log_broadcasts :
                      tracker[p].result # Nil /\ tracker[p].result <= r.block_number

\* The first call failed after it had stored the pending minimum block and
\* before it deleted; the second call deleted the rows and returned.
C21_Witness ==
    /\ tracker["t1"].pc = "ret" /\ tracker["t1"].err = ErrStorage
    /\ tracker["t1"].unconsumed # {}
    /\ tracker["t1"].pending # tracker["t2"].pending
    /\ tracker["t2"].pc = "ret" /\ tracker["t2"].err = NULL
    /\ tracker["t2"].unconsumed # {}
    /\ tracker["t2"].unconsumed \cap log_broadcasts = {}


\* C22: a call that is canceled or fails leaves no partial state.  For
\* Reinitialize: when it has returned an error and nothing else has run
\* since, the rows and the pending minimum block of the chain are those from
\* before the call, or those a complete call leaves (no row that was
\* unconsumed is left).
C22_FailedCallLeavesNoPartialState ==
    \A p \in Trackers :
        (/\ tracker[p].pc = "ret" /\ tracker[p].op = "Reinitialize"
         /\ tracker[p].err # NULL
         /\ p = "t1" => tracker["t2"].pc = "idle") =>
            \/ /\ tracker[p].unconsumed \subseteq log_broadcasts
               /\ PersistedPending = tracker[p].pending
            \/ tracker[p].unconsumed \cap log_broadcasts = {}


\* ------------------------------------------------ the pending minimum block
OnePendingRowPerChain ==
    \A r1, r2 \in log_broadcasts_pending : r1.evm_chain_id = r2.evm_chain_id => r1 = r2

\* The pending rows of the chains of other ORMs.
OtherPending(rows) == {r \in rows : r.evm_chain_id # evmChainID}

\* C23: the pending minimum block is one record per chain and the last write
\* wins.  SetPendingMinBlock(v) leaves the chain's record with v, v a block or
\* absent, and no other chain's record changed; GetPendingMinBlock returns
\* what the chain's record holds, and absent with no error when the chain has
\* no record; there is never more than one record for a chain.
C23_PendingMinBlockLastWriteWins ==
    /\ []OnePendingRowPerChain
    /\ [][\A p \in Trackers :
            /\ TrackerReturns(p, "SetPendingMinBlock") =>
                  /\ tracker'[p].err = NULL
                  /\ \E r \in log_broadcasts_pending' :
                        r.evm_chain_id = evmChainID /\ r.block_number = tracker'[p].value
                  /\ OtherPending(log_broadcasts_pending') = OtherPending(log_broadcasts_pending)
                  /\ log_broadcasts' = log_broadcasts
            /\ TrackerReturns(p, "GetPendingMinBlock") =>
                  LET mine == log_broadcasts_pending \ OtherPending(log_broadcasts_pending) IN
                  /\ tracker'[p].err = NULL
                  /\ mine = {} => tracker'[p].result = Nil
                  /\ \A r \in mine : tracker'[p].result = r.block_number
                  /\ log_broadcasts_pending' = log_broadcasts_pending
                  /\ log_broadcasts' = log_broadcasts]_vars

\* After SetPendingMinBlock(2), with a record of another chain at block 1,
\* GetPendingMinBlock has returned 2.
C23_Witness ==
    \E p, q \in Trackers :
        /\ tracker[p].pc = "ret" /\ tracker[p].op = "SetPendingMinBlock"
        /\ tracker[p].value # Nil
        /\ tracker[q].pc = "ret" /\ tracker[q].op = "GetPendingMinBlock"
        /\ tracker[q].result = tracker[p].value
        /\ \E r \in OtherPending(log_broadcasts_pending) : r.block_number # tracker[p].value


\* ------------------------------------------------- StoreRun, case by case
\* StoreRun of executor e's unfinished run returns in this step.
StoreRunUnfinishedReturns(e) ==
    pc[e] = "StoreRun_locked" /\ pc'[e] = "ret" /\ ret'[e].op = "StoreRun"

\* The persisted copies, no longer pending, of task run tr of e's run.
PostedCopies(e, tr) ==
    {row \in pipeline_task_runs :
        /\ row.pipeline_run_id = run[e].ID
        /\ row.dot_id = tr.dot_id
        /\ ~(row.finished_at = 0 /\ row.output = NULL /\ row.error = NULL)}

\* The task runs of e's run that are pending in memory and not in the table.
Outdated(e) ==
    {tr \in run[e].PipelineTaskRuns :
        /\ tr.finished_at = 0 /\ tr.output = NULL /\ tr.error = NULL
        /\ PostedCopies(e, tr) # {}}

\* C24: StoreRun of an unfinished run, when a task run that is pending in the
\* caller's run is no longer pending in the table, returns restart = true,
\* puts the table's copy in the place of each such task run of the caller's
\* run, and writes nothing: the run row is not suspended and no task row is
\* inserted or updated.
C24_StoreRunRestartWritesNothing ==
    [][\A e \in Executors :
          (StoreRunUnfinishedReturns(e) /\ Outdated(e) # {}) =>
              /\ ret'[e].signal = TRUE
              /\ ret'[e].err = NULL
              /\ pipeline_runs' = pipeline_runs
              /\ pipeline_task_runs' = pipeline_task_runs
              /\ run'[e].PipelineTaskRuns =
                    (run[e].PipelineTaskRuns \ Outdated(e))
                       \cup UNION {PostedCopies(e, tr) : tr \in Outdated(e)}
              /\ run'[e].State = run[e].State]_vars

\* StoreRun has returned restart = true: the caller's run holds a task run
\* with a posted result and the run row is Running.
C24_Witness ==
    \E e \in Executors :
        /\ pc[e] = "ret" /\ ret[e].op = "StoreRun" /\ ret[e].signal
        /\ \E tr \in run[e].PipelineTaskRuns :
              tr \in pipeline_task_runs /\ tr.finished_at # 0
        /\ \E r \in pipeline_runs : r.id = run[e].ID /\ r.state = RunStatusRunning


\* The table's task rows carry what the caller's task runs carried, row by
\* row of the key (run id, dot id), and the other rows are as they were.
TaskRowsCarry(e) ==
    /\ \A tr \in run[e].PipelineTaskRuns :
          \E row \in pipeline_task_runs' :
              /\ row.pipeline_run_id = tr.pipeline_run_id /\ row.dot_id = tr.dot_id
              /\ row.output = tr.output /\ row.error = tr.error
              /\ row.finished_at = tr.finished_at
    /\ \A row \in pipeline_task_runs :
          (\A tr \in run[e].PipelineTaskRuns :
              ~(row.pipeline_run_id = tr.pipeline_run_id /\ row.dot_id = tr.dot_id))
             => row \in pipeline_task_runs'
    /\ Cardinality(pipeline_task_runs') =
          Cardinality({<<x.pipeline_run_id, x.dot_id>> :
                          x \in pipeline_task_runs \cup run[e].PipelineTaskRuns})

\* C25: StoreRun of an unfinished run, when no task run that is pending in
\* the caller's run has a copy in the table that is no longer pending, and
\* the storage reports no error, returns restart = false, sets the run row's
\* state to Suspended and upserts every task run of the caller's run by (run
\* id, dot id): the rows then carry the caller's outputs, errors and finish
\* times.
C25_StoreRunSuspends ==
    [][\A e \in Executors :
          (StoreRunUnfinishedReturns(e) /\ Outdated(e) = {} /\ ret'[e].err = NULL) =>
              /\ ret'[e].signal = FALSE
              /\ pipeline_runs' =
                    {IF r.id = run[e].ID THEN [r EXCEPT !.state = RunStatusSuspended] ELSE r :
                        r \in pipeline_runs}
              /\ \E r \in pipeline_runs' : r.id = run[e].ID
              /\ TaskRowsCarry(e)]_vars

\* StoreRun has suspended a run and overwritten a task row that carried
\* another finish time.
C25_Witness ==
    \E e \in Executors :
        /\ pc[e] = "ret" /\ ret[e].op = "StoreRun" /\ ~ret[e].signal
        /\ ret[e].err = NULL /\ run[e].FinishedAt = 0
        /\ \E r \in pipeline_runs : r.id = run[e].ID /\ r.state = RunStatusSuspended
        /\ \E row \in pipeline_task_runs, tr \in created :
              /\ row \in run[e].PipelineTaskRuns
              /\ row.id = tr.id /\ row.finished_at # tr.finished_at


\* ----------------------------------------------------- UpdateTaskRunResult
\* UpdateTaskRunResult of c returns in this step, having found the run.
UpdateTaskRunResultReturns(c) ==
    pc[c] = "UpdateTaskRunResult_locked" /\ pc'[c] = "ret"

\* The run rows that have the task c posts to.
RunsPostedTo(c) ==
    {r \in pipeline_runs :
        \E tr \in pipeline_task_runs : tr.id = req[c].taskID /\ tr.pipeline_run_id = r.id}

\* C26: UpdateTaskRunResult for a task of a Suspended run stores the result
\* on the task row, sets the run row's state to Running and returns start =
\* true with all the task rows of the run, the one with the result included;
\* for a task of a Running run it stores the result, leaves the run row as it
\* is and returns start = false.
C26_UpdateTaskRunResultStoresAndStarts ==
    [][\A c \in Callbacks :
          UpdateTaskRunResultReturns(c) =>
              \A r \in RunsPostedTo(c) :
                  /\ ret'[c].err = NULL
                  /\ \E tr \in pipeline_task_runs' :
                        /\ tr.id = req[c].taskID /\ tr.pipeline_run_id = r.id
                        /\ tr.output = req[c].output /\ tr.error = req[c].error
                        /\ tr.finished_at # 0
                  /\ \A tr \in pipeline_task_runs :
                        tr.id # req[c].taskID => tr \in pipeline_task_runs'
                  /\ Cardinality(pipeline_task_runs') = Cardinality(pipeline_task_runs)
                  /\ r.state = RunStatusSuspended =>
                        /\ ret'[c].signal = TRUE
                        /\ pipeline_runs' = (pipeline_runs \ {r})
                                               \cup {[r EXCEPT !.state = RunStatusRunning]}
                        /\ ret'[c].run.ID = r.id
                        /\ ret'[c].run.State = RunStatusRunning
                        /\ ret'[c].run.PipelineTaskRuns =
                              {tr \in pipeline_task_runs' : tr.pipeline_run_id = r.id}
                  /\ r.state = RunStatusRunning =>
                        /\ ret'[c].signal = FALSE
                        /\ pipeline_runs' = pipeline_runs]_vars

\* UpdateTaskRunResult has returned start = true with a run of two task
\* runs, one of them with the result it stored.
C26_Witness ==
    \E c \in Callbacks :
        /\ pc[c] = "ret" /\ ret[c].op = "UpdateTaskRunResult" /\ ret[c].signal
        /\ Cardinality(ret[c].run.PipelineTaskRuns) = 2
        /\ \E tr \in ret[c].run.PipelineTaskRuns :
              tr.id = req[c].taskID /\ tr.output = req[c].output /\ tr.error = req[c].error


\* C27: StoreRun of a finished run whose outputs or fatal errors are not set
\* returns a validation error and changes no run row and no task row;
\* otherwise, the storage reporting no error, it writes the run's state,
\* finish time, outputs and fatal errors on the run row, upserts all its task
\* runs by (run id, dot id) and returns restart = false.
C27_StoreRunFinished ==
    [][\A e \in Executors :
          /\ (pc[e] = "StoreRun_tx" /\ pc'[e] # "StoreRun_tx" /\ run[e].FinishedAt # 0) =>
                IF run[e].Outputs = NULL \/ Len(run[e].FatalErrors) = 0
                   THEN /\ pc'[e] = "ret"
                        /\ ret'[e].op = "StoreRun"
                        /\ ret'[e].err = ErrOutputsErrors
                        /\ pipeline_runs' = pipeline_runs
                        /\ pipeline_task_runs' = pipeline_task_runs
                   ELSE /\ pc'[e] = "StoreRun_finishing"
                        /\ pipeline_runs' = pipeline_runs
                        /\ pipeline_task_runs' = pipeline_task_runs
          /\ (pc[e] = "StoreRun_finishing" /\ pc'[e] = "ret" /\ ret'[e].err = NULL) =>
                /\ ret'[e].op = "StoreRun"
                /\ ret'[e].signal = FALSE
                /\ pipeline_runs' =
                      {IF r.id = run[e].ID
                          THEN [r EXCEPT !.state = run[e].State,
                                         !.finished_at = run[e].FinishedAt,
                                         !.outputs = run[e].Outputs,
                                         !.fatal_errors = run[e].FatalErrors]
                          ELSE r : r \in pipeline_runs}
                /\ TaskRowsCarry(e)]_vars

\* StoreRun has finished a run that was stored before: the run row is
\* Completed with the finish time, and a task row is there.
C27_Witness ==
    \E e \in Executors :
        /\ pc[e] = "ret" /\ ret[e].op = "StoreRun" /\ ret[e].err = NULL
        /\ run[e].FinishedAt # 0
        /\ \E r \in pipeline_runs :
              /\ r.id = run[e].ID /\ r.state = RunStatusCompleted
              /\ r.finished_at = run[e].FinishedAt /\ r.outputs = run[e].Outputs
        /\ \E tr \in pipeline_task_runs : tr.pipeline_run_id = run[e].ID


\* The least of the pending minimum block, nil counting as greater than any
\* block, and the blocks of a set of rows that is not empty.
LeastOf(pending, rows) ==
    CHOOSE n \in {r.block_number : r \in rows} \cup ({pending} \ {Nil}) :
        /\ \A r \in rows : n <= r.block_number
        /\ pending # Nil => n <= pending

\* C28: Reinitialize, with no unconsumed row of the chain, returns the
\* pending minimum block as it is and changes no row; otherwise it returns
\* the least of the pending minimum block and the blocks of the unconsumed
\* rows, an absent pending minimum block counting as greater than any block,
\* the pending minimum block in the table is then what it returned, and it
\* is not higher than before the call.
C28_ReinitializeResult ==
    /\ [](\A p \in Trackers :
            (ReinitializeReturned(p) /\ tracker[p].err = NULL) =>
                IF tracker[p].unconsumed = {}
                   THEN tracker[p].result = tracker[p].pending
                   ELSE /\ tracker[p].result =
                              LeastOf(tracker[p].pending, tracker[p].unconsumed)
                        /\ PersistedPending = tracker[p].result
                        /\ tracker[p].pending # Nil => PersistedPending <= tracker[p].pending)
    /\ [][\A p \in Trackers :
            (tracker[p].op = "Reinitialize" /\ tracker[p].pc # "ret"
                /\ tracker[p].unconsumed = {}) =>
                /\ log_broadcasts' = log_broadcasts
                /\ log_broadcasts_pending' = log_broadcasts_pending]_vars

\* Reinitialize has returned the block of an unconsumed row, which was less
\* than the pending minimum block of before.
C28_Witness ==
    \E p \in Trackers :
        /\ ReinitializeReturned(p) /\ tracker[p].err = NULL
        /\ tracker[p].unconsumed # {}
        /\ tracker[p].pending # Nil
        /\ tracker[p].result < tracker[p].pending


\* The rows of the chains of other ORMs.
OtherBroadcasts(rows) == {r \in rows : r.evm_chain_id # evmChainID}

\* C29: Reinitialize deletes the unconsumed rows of its chain and nothing
\* else: when it has returned the chain has no unconsumed row, and no step of
\* it changes a consumed row, inserts a row, or changes a row or the pending
\* minimum block of another chain.
C29_ReinitializeDeletesOnlyUnconsumed ==
    /\ [](\A p \in Trackers :
            (ReinitializeReturned(p) /\ tracker[p].err = NULL) =>
                \A r \in log_broadcasts : r.evm_chain_id = evmChainID => r.consumed)
    /\ [][/\ log_broadcasts' \subseteq log_broadcasts
          /\ \A r \in log_broadcasts : r.consumed => r \in log_broadcasts'
          /\ OtherBroadcasts(log_broadcasts') = OtherBroadcasts(log_broadcasts)
          /\ OtherPending(log_broadcasts_pending') = OtherPending(log_broadcasts_pending)]_vars

\* Reinitialize has deleted rows; a consumed row of its chain and an
\* unconsumed row of another chain are in the table.
C29_Witness ==
    \E p \in Trackers :
        /\ ReinitializeReturned(p) /\ tracker[p].err = NULL
        /\ tracker[p].unconsumed # {}
        /\ \E r \in log_broadcasts : r.evm_chain_id = evmChainID /\ r.consumed
        /\ \E r \in OtherBroadcasts(log_broadcasts) : ~r.consumed


\* ---------------------------------------------------------- posted results
\* C30: a posted result is never erased: a task row that is not pending (it
\* has an output or an error, and a finish time) is not pending after any
\* step of StoreRun, on either path, or of UpdateTaskRunResult.
C30_PostedResultStays ==
    [][\A row \in pipeline_task_runs :
          ~(row.finished_at = 0 /\ row.output = NULL /\ row.error = NULL) =>
              \A after \in pipeline_task_runs' :
                  (after.pipeline_run_id = row.pipeline_run_id /\ after.dot_id = row.dot_id) =>
                      ~(after.finished_at = 0 /\ after.output = NULL /\ after.error = NULL)]_vars


\* ------------------------------------------------------ resume, exactly once
\* The calls of UpdateTaskRunResult that have returned without error.
Posted == {c \in Posters : pc[c] = "ret" /\ ret[c].op = "UpdateTaskRunResult"
                              /\ ret[c].err = NULL}

\* C31: resume is signalled exactly once per suspension: of the calls of
\* UpdateTaskRunResult for tasks of a Suspended run, for the same task or
\* for different tasks, concurrent or in sequence, exactly one returns start
\* = true and the others return start = false, as long as StoreRun does not
\* suspend the run again.
C31_ResumeSignalledOnce ==
    /\ Posted # {} => Cardinality({c \in Posted : ret[c].signal}) = 1
    /\ \A c \in Posters : (pc[c] = "ret" /\ ret[c].err # NULL) => ~ret[c].signal

\* Two calls, for different tasks, have returned: the second waited for the
\* first one's row lock, and one of them returned start = true.
C31_Witness ==
    /\ Posted = Posters
    /\ req["c1"].taskID # req["c2"].taskID
    /\ \E c \in Posters : ret[c].signal
    /\ \E c \in Posters : ~ret[c].signal
    /\ \A tr \in pipeline_task_runs : tr.finished_at # 0


\* ------------------------------------- Reinitialize and CreateBroadcast
\* C32: Reinitialize is safe when CreateBroadcast runs concurrently with it:
\* for every unconsumed row it deletes, a row that CreateBroadcast inserted
\* after the minimum unconsumed block was computed included, the pending
\* minimum block in the table when Reinitialize returns is set and at most
\* the row's block.
C32_ReinitializeSafeWithCreateBroadcast ==
    [][\A p \in Trackers :
          TrackerReturns(p, "Reinitialize") =>
              \A r \in log_broadcasts \ log_broadcasts' :
                  LET stored == {x \in log_broadcasts_pending' : x.evm_chain_id = evmChainID} IN
                  /\ stored # {}
                  /\ \A x \in stored :
                        x.block_number # Nil /\ x.block_number <= r.block_number]_vars


\* ------------------------------------------------- the scan while runs leave
\* The ids of the runs passed to fn, in order.
SeenIDs == [i \in 1..Len(maint.seen) |-> maint.seen[i].id]

\* The runs the scan still owes a call of fn when it returns: no run becomes
\* Running or is created during the scan, so a run that is Running and older
\* than the threshold now was so when the scan started and when each page
\* was queried.
StillRunning ==
    {r.id : r \in {x \in pipeline_runs :
                      x.state = RunStatusRunning /\ x.created_at < maint.now}}

\* C33: the paged scan skips no run when runs it has already passed to fn
\* leave the Running state between the pages: when it returns without error,
\* every run that was Running and created before the threshold at the start
\* and is still Running was passed to fn, and no run was passed twice.
C33_ShrinkingScanSkipsNoRun ==
    ScanDone =>
        /\ \A id \in StillRunning : \E i \in 1..Len(SeenIDs) : SeenIDs[i] = id
        /\ \A i, j \in 1..Len(SeenIDs) : SeenIDs[i] = SeenIDs[j] => i = j
====
